---- MODULE Spec2Model ----
(***************************************************************************)
(* Oncoflow: the workflow transition engine (oncoflow/workflow.py) and the *)
(* case repositories that drive it (oncoflow/repository.py).               *)
(***************************************************************************)
EXTENDS Integers, Sequences, FiniteSets, TLC

VARIABLES
    forward_rules,           \* WorkflowEngine.forward_rules : dict status -> list of statuses
    allowed_roles,           \* WorkflowEngine.allowed_roles : dict status -> list of roles
    checklist_requirements,  \* WorkflowEngine.checklist_requirements : dict status -> field name
    backend,                 \* which repository class the process runs ("memory", "file"
                             \* or "sqlite")
    patients,                \* repository: the set of stored patient ids
    dossiers,                \* repository: dict dossier id -> Dossier
    notifications,           \* repository: list of Notification
    nextId,                  \* number of records given a fresh id so far, plus one
    response,                \* the result handed back by the latest sequential call
    pc,                      \* per request-handler thread: position inside apply_transition
    local,                   \* per request-handler thread: its local variables
    statutWrites,            \* per dossier: how many times its status has been written
    readOf,                  \* per dossier: for each history record, the status write it was read after
    messages,                \* repository: dict dossier id -> list of Message
    file,                    \* the snapshot file of a FileBackedRepository
    now,                     \* the wall clock, as datetime.utcnow() reads it: <<second, microsecond>>
    baseline,                \* the class attributes base_forward_rules, base_allowed_roles,
                             \* base_checklist_requirements of WorkflowEngine (mutable dicts)
    shared                   \* the entries <<map, status>> of the table whose list is the very
                             \* list object of the baseline, not a copy of it

classVars == <<baseline, shared>>
tableVars == <<forward_rules, allowed_roles, checklist_requirements, baseline, shared>>
envVars == <<backend, now>>
repoVars == <<backend, now, patients, dossiers, messages, notifications, nextId, file>>
threadVars == <<pc, local, statutWrites, readOf>>
vars == <<forward_rules, allowed_roles, checklist_requirements, backend, patients,
          dossiers, notifications, nextId, response, pc, local, statutWrites, readOf,
          now, baseline, shared, messages, file>>

-----------------------------------------------------------------------------
(* Data model: oncoflow/models.py *)

None == "None"

MANIPULATEUR == "manipulateur"
PHYSICIEN == "physicien"
ONCOLOGUE == "oncologue"
DOSIMETRISTE == "dosimetrist"
COORDINATION == "coordination"

Role == {MANIPULATEUR, PHYSICIEN, ONCOLOGUE, DOSIMETRISTE, COORDINATION}

A_PREPARER == "A_PREPARER"
PRESCRIPTION_VALIDEE == "PRESCRIPTION_VALIDEE"
CONTOURS_VALIDES == "CONTOURS_VALIDES"
PLAN_EN_REVUE == "PLAN_EN_REVUE"
PLAN_VALIDE == "PLAN_VALIDE"
PRET_POUR_TRAITEMENT == "PRET_POUR_TRAITEMENT"
EN_TRAITEMENT == "EN_TRAITEMENT"
CLOTURE == "CLOTURE"
A_REPRENDRE_CONTOURAGE == "A_REPRENDRE_CONTOURAGE"

DossierStatus ==
    {A_PREPARER, PRESCRIPTION_VALIDEE, CONTOURS_VALIDES, PLAN_EN_REVUE, PLAN_VALIDE,
     PRET_POUR_TRAITEMENT, EN_TRAITEMENT, CLOTURE, A_REPRENDRE_CONTOURAGE}

ChecklistFields ==
    {"identity_validated", "prescription_signed", "contours_locked",
     "qa_dosimetrie", "signature_oncologue", "qa_machine_jour"}

\* ChecklistState(): every flag defaults to False
ChecklistState == [f \in ChecklistFields |-> FALSE]

\* Python truthiness of an optional string (None and "" are falsy)
Truthy(s) == s # None /\ s # ""

\* x in list
In(x, list) == \E i \in DOMAIN list : list[i] = x

\* dict.get(key, default)
DictGet(d, key, default) == IF key \in DOMAIN d THEN d[key] ELSE default

-----------------------------------------------------------------------------
(* The rule table: oncoflow/workflow.py, class attributes of WorkflowEngine *)

\* an order that leaves the rework status out
order_NoRework ==
    <<A_PREPARER, PRESCRIPTION_VALIDEE, CONTOURS_VALIDES, PLAN_EN_REVUE,
      PLAN_VALIDE, PRET_POUR_TRAITEMENT, EN_TRAITEMENT, CLOTURE>>

\* an order that places the rework status before the contours it leads back to
order_ReworkBeforeContours ==
    <<A_PREPARER, PRESCRIPTION_VALIDEE, A_REPRENDRE_CONTOURAGE, CONTOURS_VALIDES,
      PLAN_EN_REVUE, PLAN_VALIDE, PRET_POUR_TRAITEMENT, EN_TRAITEMENT, CLOTURE>>

order ==
    <<A_PREPARER, PRESCRIPTION_VALIDEE, CONTOURS_VALIDES, PLAN_EN_REVUE,
      A_REPRENDRE_CONTOURAGE, PLAN_VALIDE, PRET_POUR_TRAITEMENT, EN_TRAITEMENT, CLOTURE>>

\* a baseline in which a closed case can be reopened
base_forward_rules_Reopened ==
    [s \in {CLOTURE} |-> <<A_PREPARER>>]

\* a baseline in which PLAN_VALIDE cannot go back to PLAN_EN_REVUE
base_forward_rules_NoPlanReview ==
    [s \in DossierStatus |->
        CASE s = A_PREPARER -> <<PRESCRIPTION_VALIDEE>>
          [] s = PRESCRIPTION_VALIDEE -> <<CONTOURS_VALIDES, A_PREPARER>>
          [] s = CONTOURS_VALIDES -> <<PLAN_EN_REVUE, PRESCRIPTION_VALIDEE>>
          [] s = PLAN_EN_REVUE -> <<PLAN_VALIDE, A_REPRENDRE_CONTOURAGE, CONTOURS_VALIDES>>
          [] s = PLAN_VALIDE -> <<PRET_POUR_TRAITEMENT>>
          [] s = PRET_POUR_TRAITEMENT -> <<EN_TRAITEMENT, PLAN_VALIDE>>
          [] s = EN_TRAITEMENT -> <<CLOTURE, PRET_POUR_TRAITEMENT>>
          [] s = CLOTURE -> <<>>
          [] s = A_REPRENDRE_CONTOURAGE -> <<CONTOURS_VALIDES>>]

\* a baseline in which a case sent to rework cannot come back
base_forward_rules_ReworkDeadEnd ==
    [s \in DossierStatus |->
        CASE s = A_PREPARER -> <<PRESCRIPTION_VALIDEE>>
          [] s = PRESCRIPTION_VALIDEE -> <<CONTOURS_VALIDES, A_PREPARER>>
          [] s = CONTOURS_VALIDES -> <<PLAN_EN_REVUE, PRESCRIPTION_VALIDEE>>
          [] s = PLAN_EN_REVUE -> <<PLAN_VALIDE, A_REPRENDRE_CONTOURAGE, CONTOURS_VALIDES>>
          [] s = PLAN_VALIDE -> <<PRET_POUR_TRAITEMENT, PLAN_EN_REVUE>>
          [] s = PRET_POUR_TRAITEMENT -> <<EN_TRAITEMENT, PLAN_VALIDE>>
          [] s = EN_TRAITEMENT -> <<CLOTURE, PRET_POUR_TRAITEMENT>>
          [] s = CLOTURE -> <<>>
          [] s = A_REPRENDRE_CONTOURAGE -> <<>>]

base_forward_rules ==
    [s \in DossierStatus |->
        CASE s = A_PREPARER -> <<PRESCRIPTION_VALIDEE>>
          [] s = PRESCRIPTION_VALIDEE -> <<CONTOURS_VALIDES, A_PREPARER>>
          [] s = CONTOURS_VALIDES -> <<PLAN_EN_REVUE, PRESCRIPTION_VALIDEE>>
          [] s = PLAN_EN_REVUE -> <<PLAN_VALIDE, A_REPRENDRE_CONTOURAGE, CONTOURS_VALIDES>>
          [] s = PLAN_VALIDE -> <<PRET_POUR_TRAITEMENT, PLAN_EN_REVUE>>
          [] s = PRET_POUR_TRAITEMENT -> <<EN_TRAITEMENT, PLAN_VALIDE>>
          [] s = EN_TRAITEMENT -> <<CLOTURE, PRET_POUR_TRAITEMENT>>
          [] s = CLOTURE -> <<>>
          [] s = A_REPRENDRE_CONTOURAGE -> <<CONTOURS_VALIDES>>]

\* a baseline in which only a physicist may validate a plan
base_allowed_roles_PhysicistPlans ==
    [s \in DossierStatus |->
        IF s = PLAN_VALIDE THEN <<PHYSICIEN>>
        ELSE <<MANIPULATEUR, PHYSICIEN, ONCOLOGUE, DOSIMETRISTE, COORDINATION>>]

base_allowed_roles ==
    [s \in DossierStatus |->
        <<MANIPULATEUR, PHYSICIEN, ONCOLOGUE, DOSIMETRISTE, COORDINATION>>]

base_checklist_requirements ==
    [s \in {PRESCRIPTION_VALIDEE, CONTOURS_VALIDES, PLAN_EN_REVUE, PLAN_VALIDE,
            PRET_POUR_TRAITEMENT, EN_TRAITEMENT} |->
        CASE s = PRESCRIPTION_VALIDEE -> "identity_validated"
          [] s = CONTOURS_VALIDES -> "prescription_signed"
          [] s = PLAN_EN_REVUE -> "contours_locked"
          [] s = PLAN_VALIDE -> "qa_dosimetrie"
          [] s = PRET_POUR_TRAITEMENT -> "signature_oncologue"
          [] s = EN_TRAITEMENT -> "qa_machine_jour"]

-----------------------------------------------------------------------------
(* Errors: TransitionError(message) and KeyError(message), with the values  *)
(* formatted into the message.                                              *)

NoError == [exc |-> None, msg |-> None, a |-> None, b |-> None]

\* f"Transition {current.value} -> {target.value} non autorisee"
IllegalTransition(current, target) ==
    [exc |-> "TransitionError", msg |-> "non autorisee", a |-> current, b |-> target]

\* f"Le role {role.value} n'est pas autorise pour atteindre {target.value}"
UnauthorizedRole(role, target) ==
    [exc |-> "TransitionError", msg |-> "role pas autorise", a |-> role, b |-> target]

\* f"La condition '{requirement}' doit etre validee pour passer en {target.value}"
PreconditionNotMet(requirement, target) ==
    [exc |-> "TransitionError", msg |-> "condition doit etre validee",
     a |-> requirement, b |-> target]

\* "Un commentaire est obligatoire pour revenir a un statut precedent"
CommentRequired ==
    [exc |-> "TransitionError", msg |-> "commentaire obligatoire", a |-> None, b |-> None]

\* "Identite (acteur/role) manquante pour la transition"
IdentityMissing ==
    [exc |-> "TransitionError", msg |-> "identite manquante", a |-> None, b |-> None]

\* KeyError("Dossier introuvable")
DossierIntrouvable ==
    [exc |-> "KeyError", msg |-> "Dossier introuvable", a |-> None, b |-> None]

\* KeyError("Patient introuvable")
PatientIntrouvable ==
    [exc |-> "KeyError", msg |-> "Patient introuvable", a |-> None, b |-> None]

-----------------------------------------------------------------------------
(* WorkflowEngine.validate_transition, one check at a time.  Each check     *)
(* reads the rule table it is given and yields the error it raises, or      *)
(* NoError when it passes.                                                  *)

\* a check that reads the class-level baseline instead of the configured table
ReachabilityCheck_Baseline(rules, current, target) ==
    IF ~In(target, DictGet(base_forward_rules, current, <<>>))
    THEN IllegalTransition(current, target)
    ELSE NoError

\* a validation that accepts any target from any status
ReachabilityCheck_Unchecked(rules, current, target) == NoError

\* a check that lets a case stay where it is
ReachabilityCheck_SelfAllowed(rules, current, target) ==
    IF target # current /\ ~In(target, DictGet(rules, current, <<>>))
    THEN IllegalTransition(current, target)
    ELSE NoError

\* lines 96-100
ReachabilityCheck(rules, current, target) ==
    IF ~In(target, DictGet(rules, current, <<>>))
    THEN IllegalTransition(current, target)
    ELSE NoError

\* a check that treats an empty role list as "nobody"
RoleCheck_EmptyDenies(roles, role, target) ==
    IF role # None /\ ~In(role, DictGet(roles, target, <<>>))
    THEN UnauthorizedRole(role, target)
    ELSE NoError

\* a check that looks the roles up under a fixed list instead of the table
RoleCheck_Baseline(roles, role, target) ==
    IF role # None /\ base_allowed_roles[target] # <<>>
                   /\ ~In(role, base_allowed_roles[target])
    THEN UnauthorizedRole(role, target)
    ELSE NoError

\* lines 102-107
RoleCheck(roles, role, target) ==
    IF role # None /\ DictGet(roles, target, <<>>) # <<>>
                   /\ ~In(role, DictGet(roles, target, <<>>))
    THEN UnauthorizedRole(role, target)
    ELSE NoError

\* a validator without the checklist check
ChecklistCheck_Unchecked(requirements, checklist, target) == NoError

\* lines 109-115
ChecklistCheck(requirements, checklist, target) ==
    LET requirement == DictGet(requirements, target, None)
    IN  IF Truthy(requirement) /\ ~checklist[requirement]
        THEN PreconditionNotMet(requirement, target)
        ELSE NoError

\* order.index(x); Len(order) + 1 stands for the ValueError of an absent element
IndexOf(x) ==
    IF In(x, order)
    THEN CHOOSE i \in DOMAIN order :
             order[i] = x /\ \A j \in DOMAIN order : order[j] = x => i <= j
    ELSE Len(order) + 1

\* a comparison turned around
IsBackward_Reversed(current, target) ==
    IF In(target, order) /\ In(current, order)
    THEN IndexOf(target) > IndexOf(current)
    ELSE FALSE

\* lines 123-127: _is_backward
IsBackward(current, target) ==
    IF In(target, order) /\ In(current, order)
    THEN IndexOf(target) < IndexOf(current)
    ELSE FALSE

\* lines 117-121
DirectionCheck(current, target, commentaire) ==
    IF IsBackward(current, target) /\ ~Truthy(commentaire)
    THEN CommentRequired
    ELSE NoError

\* the first error of a list of check results, NoError when all passed
FirstError(results) ==
    IF \E i \in DOMAIN results : results[i] # NoError
    THEN results[CHOOSE i \in DOMAIN results :
                     results[i] # NoError /\ \A j \in 1..(i - 1) : results[j] = NoError]
    ELSE NoError

\* the checks run in another order: checklist before role
ValidateTransition_ChecklistFirst(current, target, checklist, commentaire, role) ==
    FirstError(<<ReachabilityCheck(forward_rules, current, target),
                 ChecklistCheck(checklist_requirements, checklist, target),
                 RoleCheck(allowed_roles, role, target),
                 DirectionCheck(current, target, commentaire)>>)

\* a comment waives the role and checklist checks
ValidateTransition_CommentWaives(current, target, checklist, commentaire, role) ==
    IF Truthy(commentaire)
    THEN ReachabilityCheck(forward_rules, current, target)
    ELSE FirstError(<<ReachabilityCheck(forward_rules, current, target),
                      RoleCheck(allowed_roles, role, target),
                      ChecklistCheck(checklist_requirements, checklist, target),
                      DirectionCheck(current, target, commentaire)>>)

\* lines 88-121: validate_transition, executed in one piece
ValidateTransition(current, target, checklist, commentaire, role) ==
    FirstError(<<ReachabilityCheck(forward_rules, current, target),
                 RoleCheck(allowed_roles, role, target),
                 ChecklistCheck(checklist_requirements, checklist, target),
                 DirectionCheck(current, target, commentaire)>>)

-----------------------------------------------------------------------------
(* Results of sequential calls.  A caller makes one call at a time and     *)
(* receives its result before it makes the next one.                       *)

NoResponse == [op |-> "none"]

Threads == {"t1", "t2"}

\* a handler thread that is not serving a request has no locals
Idle == [dossier_id |-> None]

\* no snapshot file at the path
NoFile == [exists |-> FALSE]

\* the state right after the module-level construction: engine = WorkflowEngine()
\* (reset, lines 76-86) and an empty repository of one of the classes `backends`
InitOn(backends) ==
    /\ baseline = [forward_rules |-> base_forward_rules,
                   allowed_roles |-> base_allowed_roles,
                   checklist_requirements |-> base_checklist_requirements]
    /\ forward_rules = base_forward_rules
    /\ allowed_roles = base_allowed_roles
    /\ checklist_requirements = base_checklist_requirements
    /\ shared = {}
    /\ backend \in backends
    /\ now = <<1, 0>>
    /\ patients = {}
    /\ dossiers = << >>
    /\ messages = << >>
    /\ notifications = << >>
    /\ file = NoFile
    /\ nextId = 1
    /\ response = NoResponse
    /\ pc = [t \in Threads |-> "idle"]
    /\ local = [t \in Threads |-> Idle]
    /\ statutWrites = << >>
    /\ readOf = << >>

\* the process runs the in-memory repository or the SQLite repository
Init == InitOn({"memory", "sqlite"})

\* the caller takes the result of its call
Return ==
    /\ response # NoResponse
    /\ response' = NoResponse
    /\ UNCHANGED <<tableVars, repoVars, threadVars>>

-----------------------------------------------------------------------------
(* Rule-table mutators: oncoflow/workflow.py lines 79-86 and 149-172 *)

\* the rule table as a call finds it
Table ==
    [forward_rules |-> forward_rules, allowed_roles |-> allowed_roles,
     checklist_requirements |-> checklist_requirements]

\* a reset that copies the baseline dicts but not the lists in them
Reset_ShallowCopy ==
    /\ response = NoResponse
    /\ forward_rules' = baseline.forward_rules
    /\ allowed_roles' = baseline.allowed_roles
    /\ checklist_requirements' = baseline.checklist_requirements
    /\ shared' = {<<"forward_rules", s>> : s \in DOMAIN baseline.forward_rules}
                     \cup {<<"allowed_roles", s>> : s \in DOMAIN baseline.allowed_roles}
    /\ response' = [op |-> "reset", result |-> NoError, before |-> Table]
    /\ UNCHANGED <<baseline, repoVars, threadVars>>

\* reset (lines 79-86): every list of the baseline is copied, list(targets) and
\* list(roles), so no entry of the new table shares its list with the baseline
Reset ==
    /\ response = NoResponse
    /\ forward_rules' = baseline.forward_rules
    /\ allowed_roles' = baseline.allowed_roles
    /\ checklist_requirements' = baseline.checklist_requirements
    /\ shared' = {}
    /\ response' = [op |-> "reset", result |-> NoError, before |-> Table]
    /\ UNCHANGED <<baseline, repoVars, threadVars>>

\* the interpreters the package runs on differ in `x in EnumClass` for an x that
\* is no Enum member: up to 3.11 it raises TypeError, from 3.12 on it is True when
\* x equals the value of a member and False otherwise
Builds == {"py311", "py312"}

\* the members of the Enum classes: the objects that have a .value
EnumMembers == DossierStatus \cup Role

\* f"Cibles invalides: {', '.join([t.value for t in invalid_targets])}"
InvalidTargets(invalid_targets) ==
    [exc |-> "TransitionError", msg |-> "Cibles invalides", a |-> invalid_targets,
     b |-> None]

\* `t not in DossierStatus` for a t that is no Enum member, up to Python 3.11
ContainmentTypeError ==
    [exc |-> "TypeError", msg |-> "unsupported operand type(s) for 'in'", a |-> None,
     b |-> None]

\* `t.value` for a t that is no Enum member
ValueAttributeError ==
    [exc |-> "AttributeError", msg |-> "object has no attribute 'value'", a |-> None,
     b |-> None]

\* lines 152-156: the error update_transitions raises for `targets`, NoError when
\* it goes on to the assignment.  A target is a DossierStatus member, a member of
\* another Enum, or an object that is no Enum member and equals no status value.
UpdateTransitionsError(targets, build) ==
    LET raw == {i \in DOMAIN targets : targets[i] \notin EnumMembers}
        invalid == {i \in DOMAIN targets : targets[i] \notin DossierStatus}
    IN  IF build = "py311" /\ raw # {}
        THEN ContainmentTypeError
        ELSE IF invalid = {}
        THEN NoError
        ELSE IF raw # {}
        THEN ValueAttributeError
        ELSE InvalidTargets({targets[i] : i \in invalid})

\* a mutator that adds the targets to the ones already listed
UpdateTransitions_Merging(source, targets) ==
    /\ response = NoResponse
    /\ \E build \in Builds :
        LET error == UpdateTransitionsError(targets, build)
        IN  /\ forward_rules' = IF error = NoError
                                THEN (source :> (forward_rules[source] \o targets))
                                         @@ forward_rules
                                ELSE forward_rules
            /\ response' = [op |-> "update_transitions", status |-> source,
                            value |-> targets, result |-> error, before |-> Table]
    /\ shared' = shared \ {<<"forward_rules", source>>}
    /\ UNCHANGED <<allowed_roles, checklist_requirements, baseline, repoVars, threadVars>>

\* update_transitions(source, targets)
UpdateTransitions(source, targets) ==
    /\ response = NoResponse
    /\ \E build \in Builds :
        LET error == UpdateTransitionsError(targets, build)
        IN  /\ forward_rules' = IF error = NoError
                                THEN (source :> targets) @@ forward_rules
                                ELSE forward_rules
            /\ response' = [op |-> "update_transitions", status |-> source,
                            value |-> targets, result |-> error, before |-> Table]
    /\ shared' = shared \ {<<"forward_rules", source>>}
    /\ UNCHANGED <<allowed_roles, checklist_requirements, baseline, repoVars, threadVars>>

\* update_allowed_roles(status, roles)
UpdateAllowedRoles(status, roles) ==
    /\ response = NoResponse
    /\ allowed_roles' = (status :> roles) @@ allowed_roles
    /\ response' = [op |-> "update_allowed_roles", status |-> status, value |-> roles,
                    result |-> NoError, before |-> Table]
    /\ shared' = shared \ {<<"allowed_roles", status>>}
    /\ UNCHANGED <<forward_rules, checklist_requirements, baseline, repoVars, threadVars>>

\* f"Le pre-requis {requirement} n'existe pas dans la checklist"
InvalidRequirement(requirement) ==
    [exc |-> "TransitionError", msg |-> "pre-requis n'existe pas", a |-> requirement,
     b |-> None]

\* a mutator that validates the name but never deletes an entry
UpdateChecklistRequirement_NeverClears(status, requirement) ==
    /\ response = NoResponse
    /\ IF Truthy(requirement) /\ requirement \notin ChecklistFields
       THEN /\ checklist_requirements' = checklist_requirements
            /\ response' = [op |-> "update_checklist_requirement", status |-> status,
                            value |-> requirement,
                            result |-> InvalidRequirement(requirement),
                            before |-> Table]
       ELSE /\ checklist_requirements' =
                   IF Truthy(requirement)
                   THEN (status :> requirement) @@ checklist_requirements
                   ELSE checklist_requirements
            /\ response' = [op |-> "update_checklist_requirement", status |-> status,
                            value |-> requirement, result |-> NoError,
                            before |-> Table]
    /\ UNCHANGED <<forward_rules, allowed_roles, classVars, repoVars, threadVars>>

\* update_checklist_requirement(status, requirement)
UpdateChecklistRequirement(status, requirement) ==
    /\ response = NoResponse
    /\ IF Truthy(requirement) /\ requirement \notin ChecklistFields
       THEN /\ checklist_requirements' = checklist_requirements
            /\ response' = [op |-> "update_checklist_requirement", status |-> status,
                            value |-> requirement,
                            result |-> InvalidRequirement(requirement),
                            before |-> Table]
       ELSE /\ checklist_requirements' =
                   IF Truthy(requirement)
                   THEN (status :> requirement) @@ checklist_requirements
                   ELSE [s \in DOMAIN checklist_requirements \ {status} |->
                            checklist_requirements[s]]
            /\ response' = [op |-> "update_checklist_requirement", status |-> status,
                            value |-> requirement, result |-> NoError,
                            before |-> Table]
    /\ UNCHANGED <<forward_rules, allowed_roles, classVars, repoVars, threadVars>>

-----------------------------------------------------------------------------
(* A direct call of the engine's validator *)

\* a validator that removes from the table the requirement it has found satisfied
EngineValidate_Consuming(current, target, checklist, commentaire, role) ==
    /\ response = NoResponse
    /\ response' = [op |-> "validate_transition", current |-> current, target |-> target,
                    checklist |-> checklist, commentaire |-> commentaire, role |-> role,
                    result |-> ValidateTransition(current, target, checklist,
                                                  commentaire, role),
                    checklist_after |-> checklist]
    /\ checklist_requirements' =
           IF ValidateTransition(current, target, checklist, commentaire, role) = NoError
           THEN [s \in DOMAIN checklist_requirements \ {target} |->
                    checklist_requirements[s]]
           ELSE checklist_requirements
    /\ UNCHANGED <<forward_rules, allowed_roles, classVars, repoVars, threadVars>>

\* engine.validate_transition(current, target, checklist, commentaire, role)
EngineValidate(current, target, checklist, commentaire, role) ==
    /\ response = NoResponse
    /\ response' = [op |-> "validate_transition", current |-> current, target |-> target,
                    checklist |-> checklist, commentaire |-> commentaire, role |-> role,
                    result |-> ValidateTransition(current, target, checklist,
                                                  commentaire, role),
                    \* the checklist object after the call: it is only read (line 111)
                    checklist_after |-> checklist]
    /\ UNCHANGED <<tableVars, repoVars, threadVars>>

-----------------------------------------------------------------------------
(* The engine's factory: oncoflow/workflow.py lines 129-147 *)

\* a record built with the target in both status fields
Transition_TargetTwice(id, dossier_id, current, target, auteur, role, commentaire) ==
    [id |-> id, dossier_id |-> dossier_id, ancien_statut |-> target,
     nouveau_statut |-> target, horodatage |-> now, auteur |-> auteur,
     role |-> role, commentaire |-> commentaire]

\* Transition(dossier_id=..., ancien_statut=..., ...); the default of id, uuid4, is
\* a fresh id and the default of horodatage is datetime.utcnow()
Transition(id, dossier_id, current, target, auteur, role, commentaire) ==
    [id |-> id, dossier_id |-> dossier_id, ancien_statut |-> current,
     nouveau_statut |-> target, horodatage |-> now, auteur |-> auteur,
     role |-> role, commentaire |-> commentaire]

NoTransition == [id |-> 0]

\* engine.apply_transition: validate, then build the record
EngineApplyTransition(dossier_id, current, target, checklist, auteur, role, commentaire) ==
    LET error == ValidateTransition(current, target, checklist, commentaire, role)
    IN  [error |-> error,
         transition |-> IF error = NoError
                        THEN Transition(nextId, dossier_id, current, target, auteur,
                                        role, commentaire)
                        ELSE NoTransition]

-----------------------------------------------------------------------------
(* The repositories: oncoflow/repository.py *)

PatientIds == {"p1"}
DossierIds == {"d1"}

\* datetime.isoformat(): the microseconds are left out when they are zero
IsoFormat(instant) == IF instant[2] = 0 THEN <<instant[1]>> ELSE instant

\* datetime.fromisoformat(text)
FromIsoFormat(text) == IF Len(text) = 1 THEN <<text[1], 0>> ELSE text

\* SQL NULL, JSON null
NULL == "NULL"

\* the member of the Enum class E whose value is `value`: E(value)
EnumOf(E, value) == CHOOSE member \in E : member = value

\* model_dump(mode="json") of an Optional field: None is written as null
JsonOptional(value) == IF value = None THEN NULL ELSE value

\* model_validate of an Optional field: null is read as None
ValidateOptional(value) == IF value = NULL THEN None ELSE value

\* Transition.model_dump(mode="json"): the enums by their value, the timestamp
\* as ISO-8601 text
TransitionDump(transition) ==
    [id |-> transition.id, dossier_id |-> transition.dossier_id,
     ancien_statut |-> transition.ancien_statut,
     nouveau_statut |-> transition.nouveau_statut,
     horodatage |-> IsoFormat(transition.horodatage),
     auteur |-> transition.auteur, role |-> transition.role,
     commentaire |-> JsonOptional(transition.commentaire)]

\* Transition.model_validate(item)
TransitionValidate(item) ==
    [id |-> item.id, dossier_id |-> item.dossier_id,
     ancien_statut |-> EnumOf(DossierStatus, item.ancien_statut),
     nouveau_statut |-> EnumOf(DossierStatus, item.nouveau_statut),
     horodatage |-> FromIsoFormat(item.horodatage),
     auteur |-> item.auteur, role |-> EnumOf(Role, item.role),
     commentaire |-> ValidateOptional(item.commentaire)]

\* Dossier.model_dump(mode="json"), of the case stored under `id`
DossierDump(id, dossier) ==
    [id |-> id, patient_id |-> dossier.patient_id,
     machine |-> JsonOptional(dossier.machine), statut |-> dossier.statut,
     checklists |-> dossier.checklists,
     historique |-> [i \in DOMAIN dossier.historique |->
                        TransitionDump(dossier.historique[i])]]

\* Dossier.model_validate(item); the repository keeps the case under item["id"]
DossierValidate(item) ==
    [patient_id |-> item.patient_id, machine |-> ValidateOptional(item.machine),
     statut |-> EnumOf(DossierStatus, item.statut), checklists |-> item.checklists,
     historique |-> [i \in DOMAIN item.historique |->
                        TransitionValidate(item.historique[i])]]

\* Message.model_dump(mode="json")
MessageDump(message) ==
    [message EXCEPT !.horodatage = IsoFormat(@)]

\* Message.model_validate(item)
MessageValidate(item) ==
    [item EXCEPT !.role = EnumOf(Role, @), !.horodatage = FromIsoFormat(@)]

\* Notification.model_dump(mode="json")
NotificationDump(notification) ==
    [notification EXCEPT !.created_at = IsoFormat(@)]

\* Notification.model_validate(item)
NotificationValidate(item) ==
    [item EXCEPT !.created_at = FromIsoFormat(@)]

\* a snapshot written without the notifications
FileSnapshot_NoNotifications(ps, ds, ms, ns) ==
    [exists |-> TRUE,
     patients |-> {[id |-> id] : id \in ps},
     dossiers |-> {DossierDump(id, ds[id]) : id \in DOMAIN ds},
     messages |-> [key \in DOMAIN ms |->
                      [i \in DOMAIN ms[key] |-> MessageDump(ms[key][i])]],
     notifications |-> << >>]

\* the document _save writes (lines 305-315) for a repository that holds the
\* patients ps, the cases ds, the messages ms and the notifications ns
FileSnapshot(ps, ds, ms, ns) ==
    [exists |-> TRUE,
     patients |-> {[id |-> id] : id \in ps},
     dossiers |-> {DossierDump(id, ds[id]) : id \in DOMAIN ds},
     messages |-> [key \in DOMAIN ms |->
                      [i \in DOMAIN ms[key] |-> MessageDump(ms[key][i])]],
     notifications |-> [i \in DOMAIN ns |-> NotificationDump(ns[i])]]

\* the last statement of a mutating call of the FileBackedRepository: self._save()
\* once super() has returned; a call that raised has left the method before it,
\* and the other repositories have no snapshot file
Save(returned) ==
    file' = IF backend = "file" /\ returned
            THEN FileSnapshot(patients', dossiers', messages', notifications')
            ELSE file

\* what _load (lines 317-331) reads from the document `data`
Load(data) ==
    [patients |-> {item.id : item \in data.patients},
     dossiers |-> [id \in {item.id : item \in data.dossiers} |->
                      DossierValidate(CHOOSE item \in data.dossiers : item.id = id)],
     messages |-> [key \in DOMAIN data.messages |->
                      [i \in DOMAIN data.messages[key] |->
                          MessageValidate(data.messages[key][i])]],
     notifications |-> [i \in DOMAIN data.notifications |->
                           NotificationValidate(data.notifications[i])]]

\* a merge that drops the overrides of the request
MergeChecklist_Stored(checklists, contexte) == checklists

\* a merge in which the overrides replace the whole checklist
MergeChecklist_Replace(checklists, contexte) ==
    [f \in ChecklistFields |-> IF f \in DOMAIN contexte THEN contexte[f] ELSE FALSE]

\* dossier.checklists.model_copy(update=request.contexte)
MergeChecklist(checklists, contexte) ==
    [f \in ChecklistFields |-> IF f \in DOMAIN contexte THEN contexte[f] ELSE checklists[f]]

\* Notification(type="transition", message=f"{acteur} ({role}) : {statut} -> {cible}", ...);
\* the default of created_at is datetime.utcnow()
TransitionNotification(dossier_id, acteur, role, statut, cible) ==
    [type |-> "transition", acteur |-> acteur, role |-> role, de |-> statut,
     vers |-> cible, severity |-> "info", dossier_id |-> dossier_id,
     created_at |-> now]

\* what a call leaves behind when it raises: nothing is written
Rejected(error) ==
    [result |-> error, transition |-> NoTransition, dossiers |-> dossiers,
     notifications |-> notifications, nextId |-> nextId]

\* a case that records the transition and the checklist but keeps its status
AppliedDossier_StatusKept(dossier, cible, merged_checklist, transition) ==
    [dossier EXCEPT !.checklists = merged_checklist,
                    !.historique = Append(@, transition)]

\* the dossier after the three assignments that follow a successful validation
AppliedDossier(dossier, cible, merged_checklist, transition) ==
    [dossier EXCEPT !.statut = cible,
                    !.checklists = merged_checklist,
                    !.historique = Append(@, transition)]

\* the in-memory repository formats the notification after it has assigned the
\* status, the SQLite repository formats it from the row it read at the start
NotifiedStatut(dossier, cible) ==
    IF backend = "sqlite" THEN dossier.statut ELSE cible

\* a repository that stores the merged checklist before it validates
ApplyTransitionOutcome_MergeFirst(dossier_id, request) ==
    IF dossier_id \notin DOMAIN dossiers
    THEN Rejected(DossierIntrouvable)
    ELSE LET dossier == dossiers[dossier_id]
             merged_checklist == MergeChecklist(dossier.checklists, request.contexte)
             stored == [dossiers EXCEPT ![dossier_id].checklists = merged_checklist]
         IN  IF ~Truthy(request.acteur) \/ ~Truthy(request.role)
             THEN [Rejected(IdentityMissing) EXCEPT !.dossiers = stored]
             ELSE LET built == EngineApplyTransition(dossier_id, dossier.statut,
                                   request.cible, merged_checklist, request.acteur,
                                   request.role, request.commentaire)
                  IN  IF built.error # NoError
                      THEN [Rejected(built.error) EXCEPT !.dossiers = stored]
                      ELSE [result |-> NoError,
                            transition |-> built.transition,
                            dossiers |-> [dossiers EXCEPT ![dossier_id] =
                                AppliedDossier(dossier, request.cible, merged_checklist,
                                               built.transition)],
                            notifications |-> Append(notifications,
                                TransitionNotification(dossier_id, request.acteur,
                                    request.role, NotifiedStatut(dossier, request.cible),
                                    request.cible)),
                            nextId |-> nextId + 1]

\* a repository that assigns the status before it validates
ApplyTransitionOutcome_StatusFirst(dossier_id, request) ==
    IF dossier_id \notin DOMAIN dossiers
    THEN Rejected(DossierIntrouvable)
    ELSE LET dossier == dossiers[dossier_id]
             merged_checklist == MergeChecklist(dossier.checklists, request.contexte)
             moved == [dossiers EXCEPT ![dossier_id].statut = request.cible]
         IN  IF ~Truthy(request.acteur) \/ ~Truthy(request.role)
             THEN Rejected(IdentityMissing)
             ELSE LET built == EngineApplyTransition(dossier_id, dossier.statut,
                                   request.cible, merged_checklist, request.acteur,
                                   request.role, request.commentaire)
                  IN  IF built.error # NoError
                      THEN [Rejected(built.error) EXCEPT !.dossiers = moved]
                      ELSE [result |-> NoError,
                            transition |-> built.transition,
                            dossiers |-> [dossiers EXCEPT ![dossier_id] =
                                AppliedDossier(dossier, request.cible, merged_checklist,
                                               built.transition)],
                            notifications |-> Append(notifications,
                                TransitionNotification(dossier_id, request.acteur,
                                    request.role, NotifiedStatut(dossier, request.cible),
                                    request.cible)),
                            nextId |-> nextId + 1]

\* InMemoryRepository.apply_transition (lines 139-168) and
\* SQLiteRepository.apply_transition (lines 715-762), executed in one piece:
\* the result of the call and the repository it leaves
ApplyTransitionOutcome(dossier_id, request) ==
    IF dossier_id \notin DOMAIN dossiers
    THEN Rejected(DossierIntrouvable)
    ELSE LET dossier == dossiers[dossier_id]
             merged_checklist == MergeChecklist(dossier.checklists, request.contexte)
         IN  IF ~Truthy(request.acteur) \/ ~Truthy(request.role)
             THEN Rejected(IdentityMissing)
             ELSE LET built == EngineApplyTransition(dossier_id, dossier.statut,
                                   request.cible, merged_checklist, request.acteur,
                                   request.role, request.commentaire)
                  IN  IF built.error # NoError
                      THEN Rejected(built.error)
                      ELSE [result |-> NoError,
                            transition |-> built.transition,
                            dossiers |-> [dossiers EXCEPT ![dossier_id] =
                                AppliedDossier(dossier, request.cible, merged_checklist,
                                               built.transition)],
                            notifications |-> Append(notifications,
                                TransitionNotification(dossier_id, request.acteur,
                                    request.role, NotifiedStatut(dossier, request.cible),
                                    request.cible)),
                            nextId |-> nextId + 1]

\* the longest history a case is allowed to grow in the model
MaxHistory == 2

\* repo.apply_transition(dossier_id, request), for a case whose history is shorter
\* than `limit`
ApplyTransitionWithin(limit, dossier_id, request) ==
    LET outcome == ApplyTransitionOutcome(dossier_id, request)
    IN  /\ response = NoResponse
        /\ \A t \in Threads : pc[t] = "idle"
        /\ outcome.result = NoError =>
               Len(dossiers[dossier_id].historique) < limit
        /\ dossiers' = outcome.dossiers
        /\ notifications' = outcome.notifications
        /\ nextId' = outcome.nextId
        /\ response' = [op |-> "apply_transition", dossier_id |-> dossier_id,
                        request |-> request, result |-> outcome.result,
                        transition |-> outcome.transition,
                        before |-> [dossiers |-> dossiers,
                                    notifications |-> notifications]]
        /\ IF outcome.result = NoError
           THEN /\ statutWrites' = [statutWrites EXCEPT ![dossier_id] = @ + 1]
                /\ readOf' = [readOf EXCEPT ![dossier_id] =
                                 Append(@, statutWrites[dossier_id])]
           ELSE UNCHANGED <<statutWrites, readOf>>
        /\ UNCHANGED <<tableVars, envVars, messages, patients, pc, local>>
        /\ Save(outcome.result = NoError)

\* repo.apply_transition(dossier_id, request)
ApplyTransition(dossier_id, request) ==
    ApplyTransitionWithin(MaxHistory, dossier_id, request)

\* repo.create_patient(...): lines 39-55, 285-288 and 493-523
CreatePatient ==
    /\ response = NoResponse
    /\ \E id \in PatientIds \ patients :
        /\ patients' = patients \cup {id}
        /\ response' = [op |-> "create_patient", id |-> id, result |-> NoError]
    /\ UNCHANGED <<tableVars, envVars, messages, dossiers, notifications, nextId, threadVars>>
    /\ Save(TRUE)

\* Dossier(patient_id=..., machine=...): status A_PREPARER, default checklist,
\* empty history
Dossier(patient_id, machine) ==
    [patient_id |-> patient_id, machine |-> machine, statut |-> A_PREPARER,
     checklists |-> ChecklistState, historique |-> << >>]

\* repo.create_dossier(patient_id, machine=machine): lines 69-87, 290-293 and
\* 541-580
CreateDossierOn(patient_id, machine) ==
    /\ response = NoResponse
    /\ IF patient_id \notin patients
       THEN /\ response' = [op |-> "create_dossier", id |-> None,
                            result |-> PatientIntrouvable]
            /\ UNCHANGED <<dossiers, statutWrites, readOf>>
       ELSE \E id \in DossierIds \ DOMAIN dossiers :
            /\ dossiers' = (id :> Dossier(patient_id, machine)) @@ dossiers
            /\ statutWrites' = (id :> 0) @@ statutWrites
            /\ readOf' = (id :> << >>) @@ readOf
            /\ response' = [op |-> "create_dossier", id |-> id, result |-> NoError]
    /\ UNCHANGED <<tableVars, envVars, messages, patients, notifications, nextId, pc, local>>
    /\ Save(patient_id \in patients)

\* repo.create_dossier(patient_id)
CreateDossier(patient_id) == CreateDossierOn(patient_id, None)

-----------------------------------------------------------------------------
(* The engine on its own: administrators reconfigure the rule table and    *)
(* callers validate transitions of every shape against it.                 *)

RuleSources == {A_PREPARER, CLOTURE}
\* target lists: two of statuses, one with a member of another Enum (a Role),
\* one with an object that is no Enum member
RuleTargets ==
    {<< >>, <<CONTOURS_VALIDES, A_PREPARER>>, <<CONTOURS_VALIDES, PHYSICIEN>>,
     <<"BOGUS">>}
RoleStatuses == {CONTOURS_VALIDES}
\* role lists: the empty one, one of a Role, one of a name that is no Role
RoleLists == {<< >>, <<ONCOLOGUE>>, <<"stagiaire">>}
RequirementStatuses == {PRESCRIPTION_VALIDEE}
RequirementNames == {None, "", "qa_dosimetrie", "bogus"}

\* checklists handed to the validator: nothing set, everything set, one flag set
EngineChecklists ==
    {ChecklistState, [f \in ChecklistFields |-> TRUE]}
        \cup {[f \in ChecklistFields |-> f = g] : g \in {"identity_validated"}}

Commentaires == {None, "", "motif"}

\* pydantic's validation of a field Dict[DossierStatus, List[E]]: every key is a
\* DossierStatus and every element of every list is a member of E (a str Enum
\* member validates to itself); the validated value is a new dict of new lists
ValidListMap(m, E) ==
    \A s \in DOMAIN m : s \in DossierStatus /\ \A i \in DOMAIN m[s] : m[s][i] \in E

\* pydantic.ValidationError raised by WorkflowSnapshot(...)
SnapshotValidationError ==
    [exc |-> "ValidationError", msg |-> "validation error for WorkflowSnapshot",
     a |-> None, b |-> None]

\* the error the construction WorkflowSnapshot(transitions=self.forward_rules, ...)
\* raises on the table as it is, NoError when it builds the snapshot
SnapshotError ==
    IF /\ ValidListMap(forward_rules, DossierStatus)
       /\ ValidListMap(allowed_roles, Role)
       /\ \A s \in DOMAIN checklist_requirements : s \in DossierStatus
    THEN NoError
    ELSE SnapshotValidationError

\* the snapshot model built from the table
WorkflowSnapshot ==
    [transitions |-> forward_rules, checklist_requirements |-> checklist_requirements,
     allowed_roles |-> allowed_roles, status_order |-> order]

\* engine.snapshot() (lines 174-180)
Snapshot ==
    /\ response = NoResponse
    /\ response' = [op |-> "snapshot", result |-> SnapshotError,
                    snapshot |-> IF SnapshotError = NoError THEN WorkflowSnapshot
                                 ELSE None,
                    before |-> Table]
    /\ UNCHANGED <<tableVars, repoVars, threadVars>>

Configure ==
    \/ Reset
    \/ \E s \in RuleSources, ts \in RuleTargets : UpdateTransitions(s, ts)
    \/ \E s \in RoleStatuses, rs \in RoleLists : UpdateAllowedRoles(s, rs)
    \/ \E s \in RequirementStatuses, r \in RequirementNames :
           UpdateChecklistRequirement(s, r)

InitEngine == Init /\ backend = "sqlite"

\* a caller validates some transition
Validate ==
    /\ response = NoResponse
    /\ \E current \in DossierStatus, target \in DossierStatus,
          checklist \in EngineChecklists, commentaire \in Commentaires,
          role \in Role \cup {None} :
           EngineValidate(current, target, checklist, commentaire, role)

NextEngine ==
    \/ Configure
    \/ Validate
    \/ Snapshot
    \/ Return

SpecEngine == InitEngine /\ [][NextEngine]_vars

-----------------------------------------------------------------------------
(* The repository under sequential calls: one caller creates a patient and *)
(* a case, submits transition requests and reconfigures the rule table.    *)

\* acteur and role of a request: two complete identities and two incomplete ones
Identites ==
    {[acteur |-> "bot", role |-> PHYSICIEN], [acteur |-> "bot", role |-> ONCOLOGUE],
     [acteur |-> None, role |-> PHYSICIEN], [acteur |-> "bot", role |-> None]}

\* request.contexte: no override, or one flag set or cleared
Contextes ==
    {<< >>, [f \in {"identity_validated"} |-> TRUE],
     [f \in {"prescription_signed"} |-> TRUE], [f \in {"identity_validated"} |-> FALSE]}

Cibles == {A_PREPARER, PRESCRIPTION_VALIDEE, CONTOURS_VALIDES}

\* TransitionRequest(cible=..., contexte=..., commentaire=..., acteur=..., role=...)
TransitionRequest(cible, contexte, commentaire, identite) ==
    [cible |-> cible, contexte |-> contexte, commentaire |-> commentaire,
     acteur |-> identite.acteur, role |-> identite.role]

\* a caller submits some transition request for a known or an unknown case
Submit ==
    /\ response = NoResponse
    /\ \E dossier_id \in DossierIds, cible \in Cibles, contexte \in Contextes,
          commentaire \in Commentaires, identite \in Identites :
           ApplyTransition(dossier_id,
                           TransitionRequest(cible, contexte, commentaire, identite))

Reconfigure ==
    \/ Reset
    \/ UpdateTransitions(CONTOURS_VALIDES, <<A_PREPARER>>)
    \/ UpdateAllowedRoles(CONTOURS_VALIDES, <<ONCOLOGUE>>)

Next ==
    \/ CreatePatient
    \/ \E patient_id \in PatientIds : CreateDossier(patient_id)
    \/ Submit
    \/ Reconfigure
    \/ Return

Spec == Init /\ [][Next]_vars

-----------------------------------------------------------------------------
(* The repository under concurrent requests.  The API serves every request *)
(* on a thread of a pool; the threads share the repository and the engine  *)
(* and may be switched between any two statements of apply_transition.     *)
(* No statement of apply_transition takes a lock or opens a transaction of *)
(* its own: the SQLite repository shares one connection among the threads. *)

InFlight == {t \in Threads : pc[t] # "idle"}

\* the thread leaves apply_transition by raising `error`
Raise(t, error) ==
    /\ pc' = [pc EXCEPT ![t] = "done"]
    /\ local' = [local EXCEPT ![t].error = error]

\* lines 140-143 / 716-719: get_dossier, merge the overrides, check the identity.
\* The SQLite repository copies the row here; the in-memory one holds a reference.
Begin(t, dossier_id, request) ==
    /\ pc[t] = "idle"
    /\ dossier_id \in DOMAIN dossiers =>
           Len(dossiers[dossier_id].historique) + Cardinality(InFlight) < MaxHistory
    /\ LET frame == [dossier_id |-> dossier_id, request |-> request,
                     merged_checklist |-> ChecklistState, row_statut |-> None,
                     row_read |-> 0, current |-> None, read |-> 0,
                     error |-> NoError, transition |-> NoTransition]
       IN  IF dossier_id \notin DOMAIN dossiers
           THEN /\ pc' = [pc EXCEPT ![t] = "done"]
                /\ local' = [local EXCEPT ![t] =
                                [frame EXCEPT !.error = DossierIntrouvable]]
           ELSE LET loaded ==
                        [frame EXCEPT
                            !.merged_checklist =
                                MergeChecklist(dossiers[dossier_id].checklists,
                                               request.contexte),
                            !.row_statut = dossiers[dossier_id].statut,
                            !.row_read = statutWrites[dossier_id]]
                IN  IF ~Truthy(request.acteur) \/ ~Truthy(request.role)
                    THEN /\ pc' = [pc EXCEPT ![t] = "done"]
                         /\ local' = [local EXCEPT ![t] =
                                         [loaded EXCEPT !.error = IdentityMissing]]
                    ELSE /\ pc' = [pc EXCEPT ![t] = "read_statut"]
                         /\ local' = [local EXCEPT ![t] = loaded]
    /\ UNCHANGED <<tableVars, repoVars, response, statutWrites, readOf>>

\* lines 146 / 723: current=dossier.statut, read from the shared object by the
\* in-memory repository and from the thread's own copy of the row by the SQLite one
ReadStatut(t) ==
    /\ pc[t] = "read_statut"
    /\ local' = [local EXCEPT ![t] =
           IF backend = "memory"
           THEN [local[t] EXCEPT !.current = dossiers[local[t].dossier_id].statut,
                                 !.read = statutWrites[local[t].dossier_id]]
           ELSE [local[t] EXCEPT !.current = local[t].row_statut,
                                 !.read = local[t].row_read]]
    /\ pc' = [pc EXCEPT ![t] = "check_reachability"]
    /\ UNCHANGED <<tableVars, repoVars, response, statutWrites, readOf>>

\* workflow.py lines 96-100
CheckReachability(t) ==
    /\ pc[t] = "check_reachability"
    /\ LET error == ReachabilityCheck(forward_rules, local[t].current,
                                      local[t].request.cible)
       IN  IF error # NoError
           THEN Raise(t, error)
           ELSE pc' = [pc EXCEPT ![t] = "check_role"] /\ UNCHANGED local
    /\ UNCHANGED <<tableVars, repoVars, response, statutWrites, readOf>>

\* workflow.py lines 102-107
CheckRole(t) ==
    /\ pc[t] = "check_role"
    /\ LET error == RoleCheck(allowed_roles, local[t].request.role,
                              local[t].request.cible)
       IN  IF error # NoError
           THEN Raise(t, error)
           ELSE pc' = [pc EXCEPT ![t] = "check_requirement"] /\ UNCHANGED local
    /\ UNCHANGED <<tableVars, repoVars, response, statutWrites, readOf>>

\* workflow.py lines 109-115
CheckRequirement(t) ==
    /\ pc[t] = "check_requirement"
    /\ LET error == ChecklistCheck(checklist_requirements, local[t].merged_checklist,
                                   local[t].request.cible)
       IN  IF error # NoError
           THEN Raise(t, error)
           ELSE pc' = [pc EXCEPT ![t] = "check_direction"] /\ UNCHANGED local
    /\ UNCHANGED <<tableVars, repoVars, response, statutWrites, readOf>>

\* workflow.py lines 117-121 and 140-147: the direction check, then the record
CheckDirection(t) ==
    /\ pc[t] = "check_direction"
    /\ LET error == DirectionCheck(local[t].current, local[t].request.cible,
                                   local[t].request.commentaire)
       IN  IF error # NoError
           THEN Raise(t, error) /\ UNCHANGED nextId
           ELSE /\ pc' = [pc EXCEPT ![t] = "write_statut"]
                /\ local' = [local EXCEPT ![t].transition =
                       Transition(nextId, local[t].dossier_id, local[t].current,
                                  local[t].request.cible, local[t].request.acteur,
                                  local[t].request.role, local[t].request.commentaire)]
                /\ nextId' = nextId + 1
    /\ UNCHANGED <<tableVars, envVars, messages, file, patients, dossiers, notifications, response,
                   statutWrites, readOf>>

\* line 153: dossier.statut = request.cible; lines 730-737: UPDATE dossiers SET
\* statut = ?, checklists = ? (one statement)
WriteStatut(t) ==
    /\ pc[t] = "write_statut"
    /\ LET d == local[t].dossier_id
       IN  /\ dossiers' =
                  IF backend = "memory"
                  THEN [dossiers EXCEPT ![d].statut = local[t].request.cible]
                  ELSE [dossiers EXCEPT ![d].statut = local[t].request.cible,
                                        ![d].checklists = local[t].merged_checklist]
           /\ statutWrites' = [statutWrites EXCEPT ![d] = @ + 1]
    /\ pc' = [pc EXCEPT ![t] = IF backend = "memory" THEN "write_checklists"
                                                     ELSE "append_history"]
    /\ UNCHANGED <<tableVars, envVars, messages, file, patients, notifications, nextId, response,
                   local, readOf>>

\* line 154: dossier.checklists = merged_checklist
WriteChecklists(t) ==
    /\ pc[t] = "write_checklists"
    /\ dossiers' = [dossiers EXCEPT ![local[t].dossier_id].checklists =
                       local[t].merged_checklist]
    /\ pc' = [pc EXCEPT ![t] = "append_history"]
    /\ UNCHANGED <<tableVars, envVars, messages, file, patients, notifications, nextId, response,
                   local, statutWrites, readOf>>

\* line 155: dossier.historique.append(transition); lines 738-753: INSERT INTO transitions
AppendHistory(t) ==
    /\ pc[t] = "append_history"
    /\ dossiers' = [dossiers EXCEPT ![local[t].dossier_id].historique =
                       Append(@, local[t].transition)]
    /\ readOf' = [readOf EXCEPT ![local[t].dossier_id] = Append(@, local[t].read)]
    /\ pc' = [pc EXCEPT ![t] = "notify"]
    /\ UNCHANGED <<tableVars, envVars, messages, file, patients, notifications, nextId, response,
                   local, statutWrites>>

\* lines 156-168 / 754-762: the notification; the in-memory repository reads
\* dossier.statut from the shared object when it formats the message
Notify(t) ==
    /\ pc[t] = "notify"
    /\ notifications' = Append(notifications,
           TransitionNotification(local[t].dossier_id, local[t].request.acteur,
               local[t].request.role,
               IF backend = "memory" THEN dossiers[local[t].dossier_id].statut
                                     ELSE local[t].row_statut,
               local[t].request.cible))
    /\ pc' = [pc EXCEPT ![t] = "done"]
    /\ UNCHANGED <<tableVars, envVars, messages, file, patients, dossiers, nextId, response, local,
                   statutWrites, readOf>>

\* the handler answers and the thread goes back to the pool
Finish(t) ==
    /\ pc[t] = "done"
    /\ pc' = [pc EXCEPT ![t] = "idle"]
    /\ local' = [local EXCEPT ![t] = Idle]
    /\ UNCHANGED <<tableVars, repoVars, response, statutWrites, readOf>>

\* requests that arrive concurrently
ConcurrentRequests ==
    {TransitionRequest(cible, contexte, None, identite) :
        cible \in {PRESCRIPTION_VALIDEE, CONTOURS_VALIDES},
        contexte \in {[f \in {"identity_validated"} |-> TRUE],
                      [f \in {"prescription_signed"} |-> TRUE]},
        identite \in {[acteur |-> "bot", role |-> PHYSICIEN],
                      [acteur |-> "bot", role |-> None]}}

NextConc ==
    \/ CreatePatient
    \/ \E patient_id \in PatientIds : CreateDossier(patient_id)
    \/ Return
    \/ \E t \in Threads, dossier_id \in DossierIds, request \in ConcurrentRequests :
           Begin(t, dossier_id, request)
    \/ \E t \in Threads :
           \/ ReadStatut(t)
           \/ CheckReachability(t)
           \/ CheckRole(t)
           \/ CheckRequirement(t)
           \/ CheckDirection(t)
           \/ WriteStatut(t)
           \/ WriteChecklists(t)
           \/ AppendHistory(t)
           \/ Notify(t)
           \/ Finish(t)

SpecConc == Init /\ [][NextConc]_vars

-----------------------------------------------------------------------------
(* Properties of the validator, stated on the result of a direct call and  *)
(* on the rule table the call ran against.                                 *)

Validated == response.op = "validate_transition"

\* the statuses the rule table lists as targets of a source
Targets(current) ==
    IF current \in DOMAIN forward_rules
    THEN {forward_rules[current][i] : i \in DOMAIN forward_rules[current]}
    ELSE {}

\* the roles the rule table lists for entering a status
Gatekeepers(target) ==
    IF target \in DOMAIN allowed_roles
    THEN {allowed_roles[target][i] : i \in DOMAIN allowed_roles[target]}
    ELSE {}

\* position of a status in status_order
Rank(status) == CHOOSE i \in 1..Len(order) : order[i] = status

Unreachable(current, target) == target \notin Targets(current)

Unauthorized(role, target) ==
    role # None /\ Gatekeepers(target) # {} /\ role \notin Gatekeepers(target)

FlagMissing(checklist, target) ==
    target \in DOMAIN checklist_requirements
        /\ ~checklist[checklist_requirements[target]]

Backward(current, target) == Rank(target) < Rank(current)

Uncommented(commentaire) == commentaire \in {None, ""}

\* C1: a validation succeeds only if the target is listed in forward_rules[current]
\* of the current rule table; when it is not listed the validation fails with the
\* 'non autorisee' error whatever the role, the checklist and the comment are.
C1_Reachability ==
    Validated =>
        /\ response.result = NoError => response.target \in Targets(response.current)
        /\ response.target \notin Targets(response.current) =>
               response.result = IllegalTransition(response.current, response.target)

\* an edge of the baseline that the administrator removed is refused to a caller
\* whose role, checklist and comment are all in order
C1_Witness ==
    /\ Validated
    /\ response.current = A_PREPARER /\ response.target = PRESCRIPTION_VALIDEE
    /\ forward_rules[A_PREPARER] = << >>
    /\ response.role = ONCOLOGUE /\ response.commentaire = "motif"
    /\ \A f \in ChecklistFields : response.checklist[f]
    /\ response.result.msg = "non autorisee"

\* C4: a comment never unblocks a transition: when the same request without a
\* comment fails the reachability, role or checklist check, the request fails with
\* the same error whatever its comment; and the outcome of a non-backward
\* transition does not depend on the comment.
C4_CommentNeverUnblocks ==
    Validated =>
        LET bare == ValidateTransition(response.current, response.target,
                                       response.checklist, None, response.role)
        IN  /\ bare \notin {NoError, CommentRequired} => response.result = bare
            /\ ~Backward(response.current, response.target) => response.result = bare

\* a backward request with a comment, refused for its role all the same
C4_Witness ==
    /\ Validated
    /\ Backward(response.current, response.target)
    /\ response.commentaire = "motif"
    /\ response.result = UnauthorizedRole(response.role, response.target)

\* C6: an empty allowed-role list means unrestricted: with allowed_roles[target]
\* set to the empty list no role is refused by the role check of a transition
\* into target.
C6_EmptyRolesUnrestricted ==
    Validated /\ response.target \in DOMAIN allowed_roles
              /\ allowed_roles[response.target] = << >> =>
        /\ response.result.msg # "role pas autorise"
        /\ (/\ ~Unreachable(response.current, response.target)
            /\ ~FlagMissing(response.checklist, response.target)
            /\ ~Backward(response.current, response.target)) =>
               response.result = NoError

\* after update_allowed_roles(CONTOURS_VALIDES, []) a role validates a transition
\* into CONTOURS_VALIDES
C6_Witness ==
    /\ Validated
    /\ allowed_roles[CONTOURS_VALIDES] = << >>
    /\ response.target = CONTOURS_VALIDES
    /\ response.role = DOSIMETRISTE
    /\ response.result = NoError

\* C7: the first failing check wins, in the order reachability, role, checklist,
\* direction: the error reported is that of the earliest violated check.
C7_FirstFailingCheckWins ==
    Validated =>
        response.result =
            IF Unreachable(response.current, response.target)
            THEN IllegalTransition(response.current, response.target)
            ELSE IF Unauthorized(response.role, response.target)
            THEN UnauthorizedRole(response.role, response.target)
            ELSE IF FlagMissing(response.checklist, response.target)
            THEN PreconditionNotMet(checklist_requirements[response.target],
                                    response.target)
            ELSE IF Backward(response.current, response.target)
                    /\ Uncommented(response.commentaire)
            THEN CommentRequired
            ELSE NoError

\* a request that is unauthorized, lacks its checklist flag and goes backward
\* without a comment is reported as unauthorized
C7_Witness ==
    /\ Validated
    /\ ~Unreachable(response.current, response.target)
    /\ Unauthorized(response.role, response.target)
    /\ FlagMissing(response.checklist, response.target)
    /\ Backward(response.current, response.target)
    /\ Uncommented(response.commentaire)
    /\ response.result.msg = "role pas autorise"

-----------------------------------------------------------------------------
(* Properties of the repository's apply_transition, stated on the result   *)
(* of a sequential call, the request it served and the repository as it     *)
(* was when the call began.                                                 *)

Submitted == response.op = "apply_transition"

\* the case the request named, as it was before the call
CaseBefore == response.before.dossiers[response.dossier_id]

\* the case the request named, as it is now
CaseNow == dossiers[response.dossier_id]

\* the request named a stored case and carried an actor and a role
Served ==
    /\ Submitted
    /\ response.dossier_id \in DOMAIN response.before.dossiers
    /\ response.request.acteur \notin {None, ""}
    /\ response.request.role # None

\* the flag of the stored checklist, unless the request's contexte overrides it
MergedFlag(field) ==
    IF field \in DOMAIN response.request.contexte
    THEN response.request.contexte[field]
    ELSE CaseBefore.checklists[field]

\* the request passes the reachability and the role check
Admitted ==
    /\ Served
    /\ ~Unreachable(CaseBefore.statut, response.request.cible)
    /\ ~Unauthorized(response.request.role, response.request.cible)

\* the request passes the checklist check as well
Cleared ==
    /\ Admitted
    /\ response.request.cible \in DOMAIN checklist_requirements =>
           MergedFlag(checklist_requirements[response.request.cible])

\* C2: when checklist_requirements[target] names a field, a reachable and
\* role-authorized transition fails with the 'doit etre validee' error naming that
\* field if the field is false in the merged checklist (stored flags overridden by
\* the request's contexte) and passes the checklist check if it is true there, also
\* when only the request itself sets it.
C2_ChecklistPrecondition ==
    Admitted /\ response.request.cible \in DOMAIN checklist_requirements =>
        LET field == checklist_requirements[response.request.cible]
        IN  /\ ~MergedFlag(field) =>
                   response.result = PreconditionNotMet(field, response.request.cible)
            /\ MergedFlag(field) =>
                   response.result.msg # "condition doit etre validee"
            /\ MergedFlag(field)
                   /\ ~Backward(CaseBefore.statut, response.request.cible) =>
                   response.result = NoError

\* A_PREPARER -> PRESCRIPTION_VALIDEE succeeds on a case whose stored
\* identity_validated is false, with {identity_validated: true} in the request
C2_Witness ==
    /\ Admitted
    /\ CaseBefore.statut = A_PREPARER
    /\ response.request.cible = PRESCRIPTION_VALIDEE
    /\ checklist_requirements[PRESCRIPTION_VALIDEE] = "identity_validated"
    /\ ~CaseBefore.checklists["identity_validated"]
    /\ "identity_validated" \in DOMAIN response.request.contexte
    /\ response.request.contexte["identity_validated"]
    /\ response.result = NoError

\* C3: a request whose target precedes the current status in status_order and
\* that passes the reachability, role and checklist checks is rejected with the
\* 'commentaire obligatoire' error when it has no comment or an empty one, and the
\* case keeps its status.
C3_BackwardNeedsComment ==
    Cleared /\ Backward(CaseBefore.statut, response.request.cible)
            /\ Uncommented(response.request.commentaire) =>
        /\ response.result = CommentRequired
        /\ CaseNow.statut = CaseBefore.statut

\* with CONTOURS_VALIDES -> A_PREPARER made legal, a request for it with an empty
\* comment is rejected although A_PREPARER is two places before CONTOURS_VALIDES
C3_Witness ==
    /\ Cleared
    /\ CaseBefore.statut = CONTOURS_VALIDES
    /\ response.request.cible = A_PREPARER
    /\ response.request.commentaire = ""
    /\ response.result = CommentRequired
    /\ CaseNow.statut = CONTOURS_VALIDES

\* C5: when allowed_roles[target] is non-empty and lacks the actor's role, a
\* reachable transition into target fails with the role error and the case is
\* unchanged; the same request by a listed role passes the role check, and it
\* succeeds when its checklist flag is satisfied and it does not go backward.
C5_RoleGating ==
    Served /\ ~Unreachable(CaseBefore.statut, response.request.cible) =>
        /\ Unauthorized(response.request.role, response.request.cible) =>
               /\ response.result = UnauthorizedRole(response.request.role,
                                                     response.request.cible)
               /\ CaseNow = CaseBefore
        /\ response.request.role \in Gatekeepers(response.request.cible) =>
               /\ response.result.msg # "role pas autorise"
               /\ Cleared /\ ~Backward(CaseBefore.statut, response.request.cible) =>
                      response.result = NoError

\* with allowed_roles[CONTOURS_VALIDES] = [ONCOLOGUE], a PHYSICIEN whose request
\* satisfies prescription_signed is refused entry into CONTOURS_VALIDES
C5_Witness ==
    /\ Served
    /\ allowed_roles[CONTOURS_VALIDES] = <<ONCOLOGUE>>
    /\ CaseBefore.statut = PRESCRIPTION_VALIDEE
    /\ response.request.cible = CONTOURS_VALIDES
    /\ response.request.role = PHYSICIEN
    /\ MergedFlag("prescription_signed")
    /\ response.result = UnauthorizedRole(PHYSICIEN, CONTOURS_VALIDES)
    /\ CaseNow = CaseBefore

\* C8: no partial application: when a transition request fails, for whatever
\* reason, the cases (status, stored checklist, history) and the notifications are
\* exactly what they were before the request.
C8_NoPartialApplication ==
    Submitted /\ response.result # NoError =>
        /\ dossiers = response.before.dossiers
        /\ notifications = response.before.notifications

\* a request that carries an override of a stored flag is rejected for its
\* missing comment, and the stored flag is still what it was
C8_Witness ==
    /\ Served
    /\ response.result = CommentRequired
    /\ \E f \in DOMAIN response.request.contexte :
           response.request.contexte[f] # CaseBefore.checklists[f]
    /\ CaseNow.checklists = CaseBefore.checklists

\* C9: a successful transition sets the case's status to the target, stores the
\* merged checklist, and appends exactly one record to the history, whose previous
\* status is the status before the request, whose new status is the target and
\* whose case id, actor, role and comment are those of the request.
C9_SuccessfulTransitionEffect ==
    Submitted /\ response.result = NoError =>
        LET n == Len(CaseBefore.historique)
            record == CaseNow.historique[n + 1]
        IN  /\ CaseNow.statut = response.request.cible
            /\ \A f \in ChecklistFields : CaseNow.checklists[f] = MergedFlag(f)
            /\ Len(CaseNow.historique) = n + 1
            /\ SubSeq(CaseNow.historique, 1, n) = CaseBefore.historique
            /\ record.ancien_statut = CaseBefore.statut
            /\ record.nouveau_statut = response.request.cible
            /\ record.dossier_id = response.dossier_id
            /\ record.auteur = response.request.acteur
            /\ record.role = response.request.role
            /\ record.commentaire = response.request.commentaire
            /\ response.transition = record

\* a second transition of a case succeeded, with a comment and an override
C9_Witness ==
    /\ Submitted
    /\ response.result = NoError
    /\ Len(CaseNow.historique) = 2
    /\ response.request.commentaire = "motif"
    /\ DOMAIN response.request.contexte # {}
    /\ CaseNow.statut # CaseBefore.statut

-----------------------------------------------------------------------------
(* Concurrent requests on one case *)

\* C10: two transition requests on the same case never both succeed from the
\* same prior status: no two records of a case's history were produced from the
\* same read of the case's status.
C10_OneSuccessPerRead ==
    \A d \in DOMAIN readOf :
        \A i, j \in DOMAIN readOf[d] :
            readOf[d][i] = readOf[d][j] => i = j

-----------------------------------------------------------------------------
(* The rule table under concurrent configuration.  The admin endpoints and *)
(* the transition endpoint are served on threads of the same pool and share *)
(* the module-level engine.  validate_transition reads forward_rules,       *)
(* allowed_roles and checklist_requirements in three separate statements,   *)
(* a mutator writes one map in one statement and reset writes the three     *)
(* maps in three statements; no statement takes a lock.                     *)

\* validate_transition decided against one complete rule table
Decision(rules, roles, requirements, current, target, checklist, commentaire, role) ==
    FirstError(<<ReachabilityCheck(rules, current, target),
                 RoleCheck(roles, role, target),
                 ChecklistCheck(requirements, checklist, target),
                 DirectionCheck(current, target, commentaire)>>)

\* the threads that are inside validate_transition
Validating ==
    {t \in Threads : pc[t] \in {"validate_reachability", "validate_role",
                                "validate_requirement", "validate_direction"}}

\* the locals once the table has become (rules, roles, requirements): every
\* validation in flight records whether that complete table accepts its request
Observed(rules, roles, requirements) ==
    [t \in Threads |->
        IF t \in Validating
        THEN [local[t] EXCEPT !.accepted =
                 @ \/ Decision(rules, roles, requirements, local[t].current,
                               local[t].target, local[t].checklist,
                               local[t].commentaire, local[t].role) = NoError]
        ELSE local[t]]

\* validate_transition is entered: nothing of the table has been read yet
BeginValidate(t, current, target, checklist, commentaire, role) ==
    /\ pc[t] = "idle"
    /\ pc' = [pc EXCEPT ![t] = "validate_reachability"]
    /\ local' = [local EXCEPT ![t] =
           [op |-> "validate_transition", current |-> current, target |-> target,
            checklist |-> checklist, commentaire |-> commentaire, role |-> role,
            accepted |-> Decision(forward_rules, allowed_roles, checklist_requirements,
                                  current, target, checklist, commentaire, role)
                             = NoError,
            error |-> NoError]]
    /\ UNCHANGED <<tableVars, repoVars, response, statutWrites, readOf>>

\* one check of validate_transition: raise its error or go on to the next check
ValidateStep(t, at, error, next) ==
    /\ pc[t] = at
    /\ IF error # NoError
       THEN /\ pc' = [pc EXCEPT ![t] = "validated"]
            /\ local' = [local EXCEPT ![t].error = error]
       ELSE /\ pc' = [pc EXCEPT ![t] = next]
            /\ UNCHANGED local
    /\ UNCHANGED <<tableVars, repoVars, response, statutWrites, readOf>>

\* lines 96-100: reads self.forward_rules
ValidateReachability(t) ==
    /\ pc[t] = "validate_reachability"
    /\ ValidateStep(t, "validate_reachability",
                    ReachabilityCheck(forward_rules, local[t].current, local[t].target),
                    "validate_role")

\* lines 102-107: reads self.allowed_roles
ValidateRole(t) ==
    /\ pc[t] = "validate_role"
    /\ ValidateStep(t, "validate_role",
                    RoleCheck(allowed_roles, local[t].role, local[t].target),
                    "validate_requirement")

\* lines 109-115: reads self.checklist_requirements
ValidateRequirement(t) ==
    /\ pc[t] = "validate_requirement"
    /\ ValidateStep(t, "validate_requirement",
                    ChecklistCheck(checklist_requirements, local[t].checklist,
                                   local[t].target),
                    "validate_direction")

\* lines 117-121: reads the fixed order only
ValidateDirection(t) ==
    /\ pc[t] = "validate_direction"
    /\ ValidateStep(t, "validate_direction",
                    DirectionCheck(local[t].current, local[t].target,
                                   local[t].commentaire),
                    "validated")

\* the validation returns to its caller
EndValidate(t) ==
    /\ pc[t] = "validated"
    /\ pc' = [pc EXCEPT ![t] = "idle"]
    /\ local' = [local EXCEPT ![t] = Idle]
    /\ UNCHANGED <<tableVars, repoVars, response, statutWrites, readOf>>

\* line 157: self.forward_rules[source] = targets, on a pool thread
WriteTransitions(t, source, targets) ==
    /\ pc[t] = "idle"
    /\ forward_rules' = (source :> targets) @@ forward_rules
    /\ local' = Observed(forward_rules', allowed_roles, checklist_requirements)
    /\ shared' = shared \ {<<"forward_rules", source>>}
    /\ UNCHANGED <<allowed_roles, checklist_requirements, baseline, repoVars, response,
                   pc, statutWrites, readOf>>

\* line 160: self.allowed_roles[status] = roles, on a pool thread
WriteAllowedRoles(t, status, roles) ==
    /\ pc[t] = "idle"
    /\ allowed_roles' = (status :> roles) @@ allowed_roles
    /\ local' = Observed(forward_rules, allowed_roles', checklist_requirements)
    /\ shared' = shared \ {<<"allowed_roles", status>>}
    /\ UNCHANGED <<forward_rules, checklist_requirements, baseline, repoVars, response,
                   pc, statutWrites, readOf>>

\* lines 169-172: set or delete self.checklist_requirements[status], a valid name
WriteChecklistRequirement(t, status, requirement) ==
    /\ pc[t] = "idle"
    /\ checklist_requirements' =
           IF Truthy(requirement)
           THEN (status :> requirement) @@ checklist_requirements
           ELSE [s \in DOMAIN checklist_requirements \ {status} |->
                    checklist_requirements[s]]
    /\ local' = Observed(forward_rules, allowed_roles, checklist_requirements')
    /\ UNCHANGED <<forward_rules, allowed_roles, classVars, repoVars, response, pc,
                   statutWrites, readOf>>

\* lines 80-82: reset assigns self.forward_rules
ResetTransitions(t) ==
    /\ pc[t] = "idle"
    /\ forward_rules' = baseline.forward_rules
    /\ shared' = {e \in shared : e[1] # "forward_rules"}
    /\ pc' = [pc EXCEPT ![t] = "reset_allowed_roles"]
    /\ local' = Observed(forward_rules', allowed_roles, checklist_requirements)
    /\ UNCHANGED <<allowed_roles, checklist_requirements, baseline, repoVars, response,
                   statutWrites, readOf>>

\* lines 83-85: reset assigns self.allowed_roles
ResetAllowedRoles(t) ==
    /\ pc[t] = "reset_allowed_roles"
    /\ allowed_roles' = baseline.allowed_roles
    /\ shared' = {e \in shared : e[1] # "allowed_roles"}
    /\ pc' = [pc EXCEPT ![t] = "reset_checklist_requirements"]
    /\ local' = Observed(forward_rules, allowed_roles', checklist_requirements)
    /\ UNCHANGED <<forward_rules, checklist_requirements, baseline, repoVars, response,
                   statutWrites, readOf>>

\* line 86: reset assigns self.checklist_requirements
ResetChecklistRequirements(t) ==
    /\ pc[t] = "reset_checklist_requirements"
    /\ checklist_requirements' = baseline.checklist_requirements
    /\ pc' = [pc EXCEPT ![t] = "idle"]
    /\ local' = Observed(forward_rules, allowed_roles, checklist_requirements')
    /\ UNCHANGED <<forward_rules, allowed_roles, classVars, repoVars, response,
                   statutWrites, readOf>>

\* the validations and the configuration calls that arrive concurrently
RacingRoles == {PHYSICIEN, ONCOLOGUE}
RacingChecklists == {ChecklistState, [f \in ChecklistFields |-> TRUE]}
RacingRoleLists == {<< >>, <<ONCOLOGUE>>}
RacingTargets == {<< >>, <<CONTOURS_VALIDES>>}
RacingRequirements == {None, "prescription_signed"}

NextTable ==
    \/ \E t \in Threads, checklist \in RacingChecklists, role \in RacingRoles :
           BeginValidate(t, PRESCRIPTION_VALIDEE, CONTOURS_VALIDES, checklist, None, role)
    \/ \E t \in Threads :
           \/ ValidateReachability(t)
           \/ ValidateRole(t)
           \/ ValidateRequirement(t)
           \/ ValidateDirection(t)
           \/ EndValidate(t)
           \/ ResetTransitions(t)
           \/ ResetAllowedRoles(t)
           \/ ResetChecklistRequirements(t)
    \/ \E t \in Threads, targets \in RacingTargets :
           WriteTransitions(t, PRESCRIPTION_VALIDEE, targets)
    \/ \E t \in Threads, roles \in RacingRoleLists :
           WriteAllowedRoles(t, CONTOURS_VALIDES, roles)
    \/ \E t \in Threads, requirement \in RacingRequirements :
           WriteChecklistRequirement(t, CONTOURS_VALIDES, requirement)

SpecTable == InitEngine /\ [][NextTable]_vars

\* C11: a validation that runs while the rule table is being reconfigured succeeds
\* only if the complete table (forward_rules, allowed_roles, checklist_requirements)
\* as it stood at some single instant during the call accepts the request.
C11_AtomicTableRead ==
    \A t \in Threads :
        pc[t] = "validated" /\ local[t].error = NoError => local[t].accepted

-----------------------------------------------------------------------------
(* The terminal status *)

\* C12: under the baseline rule table forward_rules[CLOTURE] is empty, so a
\* transition from CLOTURE to any target, CLOTURE included, fails with the
\* 'non autorisee' error whatever the role, checklist and comment: a case in
\* CLOTURE cannot be moved.
C12_TerminalState ==
    /\ DictGet(base_forward_rules, CLOTURE, << >>) = << >>
    /\ Validated /\ forward_rules = base_forward_rules
                 /\ response.current = CLOTURE =>
           response.result = IllegalTransition(CLOTURE, response.target)

\* a fully equipped request to reopen a closed case is refused by the baseline
C12_Witness ==
    /\ Validated
    /\ forward_rules = base_forward_rules
    /\ response.current = CLOTURE /\ response.target = A_PREPARER
    /\ response.commentaire = "motif" /\ response.role = COORDINATION
    /\ \A f \in ChecklistFields : response.checklist[f]
    /\ response.result.msg = "non autorisee"

-----------------------------------------------------------------------------
(* Resubmission *)

\* C13: a rejected transition request leaves the repository in a state in which
\* the same request on the same case, against the same rule table, is rejected
\* again with the same error; resubmitting it any number of times never succeeds.
C13_IdempotentRejection ==
    Submitted /\ response.result # NoError =>
        ApplyTransitionOutcome(response.dossier_id, response.request).result
            = response.result

\* a request that carries an override and is rejected for its unmet requirement
C13_Witness ==
    /\ Served
    /\ response.result.msg = "condition doit etre validee"
    /\ DOMAIN response.request.contexte # {}
    /\ ApplyTransitionOutcome(response.dossier_id, response.request).result.msg
           = "condition doit etre validee"

-----------------------------------------------------------------------------
(* The checklist a transition validates and stores *)

\* C14: the checklist that a successful transition validated and stored is the
\* case's prior checklist with exactly the flags named in the request's contexte
\* replaced by the contexte's values: a named flag has the override's value, an
\* unnamed flag keeps its prior value, and the flag required for the target is
\* true in that merged checklist.
C14_ChecklistMerge ==
    Submitted /\ response.result = NoError =>
        /\ \A f \in ChecklistFields \cap DOMAIN response.request.contexte :
               CaseNow.checklists[f] = response.request.contexte[f]
        /\ \A f \in ChecklistFields \ DOMAIN response.request.contexte :
               CaseNow.checklists[f] = CaseBefore.checklists[f]
        /\ response.request.cible \in DOMAIN checklist_requirements =>
               CaseNow.checklists[checklist_requirements[response.request.cible]]

\* a transition sets one flag and keeps another flag that an earlier transition set
C14_Witness ==
    /\ Submitted /\ response.result = NoError
    /\ CaseBefore.checklists["identity_validated"]
    /\ ~CaseBefore.checklists["prescription_signed"]
    /\ response.request.contexte = [f \in {"prescription_signed"} |-> TRUE]
    /\ CaseNow.checklists["identity_validated"]
    /\ CaseNow.checklists["prescription_signed"]
    /\ ~CaseNow.checklists["contours_locked"]

-----------------------------------------------------------------------------
(* The engine called directly while cases are stored: validate_transition  *)
(* and apply_transition of the engine, next to the rule-table mutators.    *)

\* the most records with a fresh id (Transition, Message) a behaviour builds through
\* the direct calls of the factory, and through a repository that can be reset or
\* reopened
MaxBuilt == 2

\* engine.apply_transition(dossier_id, current, target, checklist, auteur, role,
\* commentaire), called directly: the record is returned, nothing is stored
EngineBuild(dossier_id, current, target, checklist, auteur, role, commentaire) ==
    LET built == EngineApplyTransition(dossier_id, current, target, checklist, auteur,
                                       role, commentaire)
    IN  /\ response = NoResponse
        /\ built.error = NoError => nextId <= MaxBuilt
        /\ response' = [op |-> "engine.apply_transition", dossier_id |-> dossier_id,
                        current |-> current, target |-> target, checklist |-> checklist,
                        commentaire |-> commentaire, role |-> role,
                        result |-> built.error, transition |-> built.transition,
                        checklist_after |-> checklist]
        /\ nextId' = IF built.error = NoError THEN nextId + 1 ELSE nextId
        /\ UNCHANGED <<tableVars, envVars, messages, file, patients, dossiers, notifications,
                       threadVars>>

DirectCurrents == {A_PREPARER, PRESCRIPTION_VALIDEE}
DirectTargets == {A_PREPARER, PRESCRIPTION_VALIDEE, CONTOURS_VALIDES}
DirectRoles == {PHYSICIEN, None}

\* a caller validates a transition of a stored or an unknown case
ValidateDirect ==
    /\ response = NoResponse
    /\ \E current \in DirectCurrents, target \in DirectTargets,
          checklist \in EngineChecklists, commentaire \in Commentaires,
          role \in DirectRoles :
           EngineValidate(current, target, checklist, commentaire, role)

\* a caller has the engine validate a transition and build its record
BuildDirect ==
    /\ response = NoResponse
    /\ \E dossier_id \in DossierIds, current \in DirectCurrents,
          target \in DirectTargets, checklist \in EngineChecklists,
          commentaire \in Commentaires, role \in DirectRoles :
           EngineBuild(dossier_id, current, target, checklist, "bot", role, commentaire)

NextDirect ==
    \/ CreatePatient
    \/ \E patient_id \in PatientIds : CreateDossier(patient_id)
    \/ Configure
    \/ ValidateDirect
    \/ BuildDirect
    \/ Return

SpecDirect == InitEngine /\ [][NextDirect]_vars

\* C15: a call of the engine's validate_transition or apply_transition, whether it
\* succeeds or fails, leaves forward_rules, allowed_roles, checklist_requirements,
\* the checklist object it was given and every stored case unchanged.
C15_EnginePure ==
    [][response = NoResponse /\ response'.op \in {"validate_transition",
                                                  "engine.apply_transition"} =>
           /\ forward_rules' = forward_rules
           /\ allowed_roles' = allowed_roles
           /\ checklist_requirements' = checklist_requirements
           /\ response'.checklist_after = response'.checklist
           /\ dossiers' = dossiers
           /\ patients' = patients
           /\ notifications' = notifications]_vars

\* the engine has built a record for a stored case against a reconfigured table
C15_Witness ==
    /\ response.op = "engine.apply_transition"
    /\ response.result = NoError
    /\ response.transition.dossier_id \in DOMAIN dossiers
    /\ dossiers[response.transition.dossier_id].historique = << >>
    /\ dossiers[response.transition.dossier_id].statut = A_PREPARER
    /\ forward_rules # base_forward_rules

-----------------------------------------------------------------------------
(* Configuration calls, stated on the result of the call and on the table  *)
(* it found.                                                               *)

Configured(op) == response.op = op

\* C16: update_transitions(X, targets) with a target that is not a recognized
\* status fails with the configuration error ('Cibles invalides'), and
\* forward_rules[X] and the rest of the rule table are what they were.
C16_InvalidTargetsRejected ==
    Configured("update_transitions")
        /\ (\E i \in DOMAIN response.value : response.value[i] \notin DossierStatus) =>
        /\ response.result.exc = "TransitionError"
        /\ response.result.msg = "Cibles invalides"
        /\ Table = response.before

\* update_checklist_requirement(status, name), where the names in `absent` count as
\* "no requirement": a name that is neither absent nor a checklist field fails with
\* the configuration error and leaves the table unchanged; a checklist field
\* becomes the requirement of status; an absent name clears the requirement.  A
\* reachable, authorized validation into a status fails the checklist check exactly
\* when the status has a requirement and that one field is false.
RequirementUpdate(absent) ==
    /\ Configured("update_checklist_requirement") =>
           /\ response.value \notin ChecklistFields \cup absent =>
                  /\ response.result = InvalidRequirement(response.value)
                  /\ Table = response.before
           /\ response.value \in ChecklistFields =>
                  /\ response.result = NoError
                  /\ response.status \in DOMAIN checklist_requirements
                  /\ checklist_requirements[response.status] = response.value
           /\ response.value \in absent =>
                  /\ response.result = NoError
                  /\ response.status \notin DOMAIN checklist_requirements
    /\ Validated /\ ~Unreachable(response.current, response.target)
                 /\ ~Unauthorized(response.role, response.target) =>
           IF response.target \in DOMAIN checklist_requirements
           THEN response.result.msg = "condition doit etre validee"
                    <=> ~response.checklist[checklist_requirements[response.target]]
           ELSE response.result.msg # "condition doit etre validee"

\* C17 as stated: update_checklist_requirement(status, name) fails with the
\* configuration error and leaves the table unchanged when name is not one of the
\* six checklist fields; a valid name becomes the single requirement of status;
\* none clears the requirement, so that transitions into status pass the checklist
\* check whatever the checklist.
C17_AsStated == RequirementUpdate({None})

\* C17, amended: as stated, except that the empty name is not rejected: like none,
\* it clears the requirement of status.
C17_RequirementUpdate == RequirementUpdate({None, ""})

\* an unknown name is rejected and the requirement configured before it stays
C17_Witness ==
    /\ Configured("update_checklist_requirement")
    /\ response.value = "bogus"
    /\ response.result.msg = "pre-requis n'existe pas"
    /\ response.status \in DOMAIN checklist_requirements
    /\ checklist_requirements[response.status] = "qa_dosimetrie"
    /\ response.before.checklist_requirements = checklist_requirements

\* C18: update_allowed_roles(status, roles) with a role outside the fixed Role set
\* fails with the configuration error and leaves allowed_roles unchanged, so every
\* list of allowed_roles holds recognized roles only.
C18_UnknownRoleRejected ==
    /\ Configured("update_allowed_roles")
           /\ (\E i \in DOMAIN response.value : response.value[i] \notin Role) =>
           /\ response.result.exc = "TransitionError"
           /\ allowed_roles = response.before.allowed_roles
    /\ \A s \in DOMAIN allowed_roles :
           \A i \in DOMAIN allowed_roles[s] : allowed_roles[s][i] \in Role

\* the map m2 is the map m1 with the entry of key k set to v, nothing else changed
OnlyEntrySet(m1, m2, k, v) ==
    /\ DOMAIN m2 = DOMAIN m1 \cup {k}
    /\ m2[k] = v
    /\ \A s \in DOMAIN m1 \ {k} : m2[s] = m1[s]

\* the map m2 is the map m1 without the entry of key k, nothing else changed
OnlyEntryDeleted(m1, m2, k) ==
    /\ DOMAIN m2 = DOMAIN m1 \ {k}
    /\ \A s \in DOMAIN m2 : m2[s] = m1[s]

\* C19: a successful update_transitions(S, T) is last-write-wins and takes effect
\* for the very next validation: the legal targets from S are exactly T, while
\* forward_rules of every other source, allowed_roles and checklist_requirements
\* are unchanged; update_allowed_roles and update_checklist_requirement likewise
\* change only the entry of the named status in their own map.
C19_MutatorFrame ==
    /\ Configured("update_transitions") /\ response.result = NoError =>
           /\ OnlyEntrySet(response.before.forward_rules, forward_rules,
                           response.status, response.value)
           /\ allowed_roles = response.before.allowed_roles
           /\ checklist_requirements = response.before.checklist_requirements
    /\ Configured("update_allowed_roles") /\ response.result = NoError =>
           /\ OnlyEntrySet(response.before.allowed_roles, allowed_roles,
                           response.status, response.value)
           /\ forward_rules = response.before.forward_rules
           /\ checklist_requirements = response.before.checklist_requirements
    /\ Configured("update_checklist_requirement") /\ response.result = NoError =>
           /\ IF response.value \in ChecklistFields
              THEN OnlyEntrySet(response.before.checklist_requirements,
                                checklist_requirements, response.status, response.value)
              ELSE OnlyEntryDeleted(response.before.checklist_requirements,
                                    checklist_requirements, response.status)
           /\ forward_rules = response.before.forward_rules
           /\ allowed_roles = response.before.allowed_roles
    /\ Validated =>
           (response.result.msg = "non autorisee"
                <=> response.target \notin Targets(response.current))

\* after update_transitions(A_PREPARER, [CONTOURS_VALIDES, A_PREPARER]) the target
\* that was legal before is refused to the very next validation
C19_Witness ==
    /\ Validated
    /\ forward_rules[A_PREPARER] = <<CONTOURS_VALIDES, A_PREPARER>>
    /\ response.current = A_PREPARER /\ response.target = PRESCRIPTION_VALIDEE
    /\ response.result.msg = "non autorisee"

-----------------------------------------------------------------------------
(* The baseline and the lists of the table.  update_transitions and        *)
(* update_allowed_roles store the list object they are given, and a caller *)
(* that reads engine.forward_rules[s] or engine.allowed_roles[s] obtains    *)
(* the list object of the table: a caller can change either in place.      *)

\* list.pop()
Pop(list) == SubSeq(list, 1, Len(list) - 1)

\* a caller pops the last element of the list it passed to, or obtained from,
\* the entry `status` of the map `map` of the table: the table's entry changes,
\* and so does the baseline's when the two share the list object
PopInPlace(map, status) ==
    /\ response = NoResponse
    /\ status \in DOMAIN Table[map]
    /\ Table[map][status] # << >>
    /\ forward_rules' = IF map = "forward_rules"
                        THEN [forward_rules EXCEPT ![status] = Pop(@)]
                        ELSE forward_rules
    /\ allowed_roles' = IF map = "allowed_roles"
                        THEN [allowed_roles EXCEPT ![status] = Pop(@)]
                        ELSE allowed_roles
    /\ baseline' = IF <<map, status>> \in shared
                   THEN [baseline EXCEPT ![map][status] = Pop(@)]
                   ELSE baseline
    /\ response' = [op |-> "list.pop", map |-> map, status |-> status,
                    result |-> NoError, before |-> Table]
    /\ UNCHANGED <<checklist_requirements, shared, repoVars, threadVars>>

\* a caller changes one of the lists it holds
ChangeInPlace ==
    \/ \E status \in RuleSources : PopInPlace("forward_rules", status)
    \/ \E status \in RoleStatuses : PopInPlace("allowed_roles", status)

NextAlias ==
    \/ Configure
    \/ ChangeInPlace
    \/ Return

SpecAlias == InitEngine /\ [][NextAlias]_vars

\* the baseline as it is written in the class body
HardcodedBaseline ==
    [forward_rules |-> base_forward_rules, allowed_roles |-> base_allowed_roles,
     checklist_requirements |-> base_checklist_requirements]

\* C20: after any sequence of update_transitions, update_allowed_roles,
\* update_checklist_requirement and reset calls, and of in-place changes to lists
\* passed to or obtained from the table, a reset leaves forward_rules,
\* allowed_roles and checklist_requirements equal to the hardcoded baseline, and
\* the baseline itself is never altered.
C20_ResetRestoresBaseline ==
    /\ baseline = HardcodedBaseline
    /\ Configured("reset") => Table = HardcodedBaseline

\* a reset of a table whose three maps had been reconfigured and one of whose
\* lists had been changed in place
C20_Witness ==
    /\ Configured("reset")
    /\ response.before.forward_rules[CLOTURE] = <<CONTOURS_VALIDES>>
    /\ response.before.allowed_roles # base_allowed_roles
    /\ response.before.checklist_requirements # base_checklist_requirements
    /\ Table = HardcodedBaseline

-----------------------------------------------------------------------------
(* The snapshot of the rule table *)

\* C21: snapshot() leaves the rule table unchanged, and it returns the forward
\* rules, the checklist requirements, the allowed roles and the status order of
\* the table as it is at the moment of the call.
C21_SnapshotFaithful ==
    Configured("snapshot") =>
        /\ Table = response.before
        /\ response.result = NoError
        /\ response.snapshot.transitions = forward_rules
        /\ response.snapshot.checklist_requirements = checklist_requirements
        /\ response.snapshot.allowed_roles = allowed_roles
        /\ response.snapshot.status_order = order

-----------------------------------------------------------------------------
(* The happy path: one user moves a new case forward, gate by gate, under  *)
(* the baseline table (tests/test_workflow.py, lines 43-70).               *)

\* the targets of the successive requests
HappyPath ==
    <<PRESCRIPTION_VALIDEE, CONTOURS_VALIDES, PLAN_EN_REVUE, PLAN_VALIDE,
      PRET_POUR_TRAITEMENT, EN_TRAITEMENT, CLOTURE>>

\* the contexte of a request that supplies the one flag the baseline requires for
\* its target, and nothing when the baseline requires none
RequiredFlagOnly(cible) ==
    IF cible \in DOMAIN base_checklist_requirements
    THEN [f \in {base_checklist_requirements[cible]} |-> TRUE]
    ELSE << >>

\* the role of the user who moves the case: any role for the first request, the
\* role of the first record afterwards
SingleRole(dossier_id, role) ==
    dossier_id \in DOMAIN dossiers /\ dossiers[dossier_id].historique # << >> =>
        role = dossiers[dossier_id].historique[1].role

\* the user asks for some status, with the flag it requires and no comment
SubmitHappy ==
    /\ response = NoResponse
    /\ \E dossier_id \in DossierIds, cible \in DossierStatus, role \in Role :
        /\ SingleRole(dossier_id, role)
        /\ ApplyTransitionWithin(Len(order), dossier_id,
               TransitionRequest(cible, RequiredFlagOnly(cible), None,
                                 [acteur |-> "bot", role |-> role]))

NextHappy ==
    \/ CreatePatient
    \/ \E patient_id \in PatientIds : CreateDossier(patient_id)
    \/ SubmitHappy
    \/ Return

SpecHappy == Init /\ [][NextHappy]_vars

\* the status a case has reached after `n` steps of the happy path
HappyStatus(n) == IF n = 0 THEN A_PREPARER ELSE HappyPath[n]

\* C22: under the baseline table, a new case is moved by one role, whichever it
\* is, through the seven statuses of the happy path in that order, each request
\* carrying only the flag its target requires and no comment: the request for
\* the next status of the path always succeeds and leaves the case in that status.
C22_HappyPath ==
    Submitted /\ response.dossier_id \in DOMAIN response.before.dossiers
        /\ (\E k \in DOMAIN HappyPath :
               /\ CaseBefore.statut = HappyStatus(k - 1)
               /\ response.request.cible = HappyPath[k]) =>
        /\ response.result = NoError
        /\ CaseNow.statut = response.request.cible
        /\ Len(CaseNow.historique) = Len(CaseBefore.historique) + 1

\* a coordinator has moved a case through the seven steps, up to CLOTURE
C22_Witness ==
    /\ Submitted
    /\ response.result = NoError
    /\ response.request.role = COORDINATION
    /\ CaseNow.statut = CLOTURE
    /\ [i \in DOMAIN CaseNow.historique |-> CaseNow.historique[i].nouveau_statut]
           = HappyPath
    /\ \A i \in DOMAIN CaseNow.historique : CaseNow.historique[i].role = COORDINATION

-----------------------------------------------------------------------------
(* The gates before treatment: one caller submits requests for any status, *)
(* forward or backward, under the baseline table.                          *)

\* the longest history a case is allowed to grow while it is walked through
\* the gates: the six steps up to EN_TRAITEMENT and one step back and forth
MaxPath == 8

\* contexte of a request: every flag of the checklist set, so that no walk
\* through the statuses is held back by the checklist
GateContextes == {[f \in ChecklistFields |-> TRUE]}

\* commentaire of a request: none, or a reason
GateCommentaires == {None, "motif"}

\* the caller asks for any status
SubmitAny ==
    /\ response = NoResponse
    /\ \E dossier_id \in DossierIds, cible \in DossierStatus,
          contexte \in GateContextes, commentaire \in GateCommentaires :
           ApplyTransitionWithin(MaxPath, dossier_id,
               TransitionRequest(cible, contexte, commentaire,
                                 [acteur |-> "bot", role |-> PHYSICIEN]))

NextGates ==
    \/ CreatePatient
    \/ \E patient_id \in PatientIds : CreateDossier(patient_id)
    \/ SubmitAny
    \/ Return

\* the process runs the in-memory repository
InitMemory == Init /\ backend = "memory"

SpecGates == InitMemory /\ [][NextGates]_vars

\* the gates a case passes before treatment, and treatment itself
Gates ==
    <<PRESCRIPTION_VALIDEE, CONTOURS_VALIDES, PLAN_EN_REVUE, PLAN_VALIDE,
      PRET_POUR_TRAITEMENT, EN_TRAITEMENT>>

\* the statuses the records of a history lead into, in the order of the records
Entries(historique) == [i \in DOMAIN historique |-> historique[i].nouveau_statut]

\* the statuses of `path` occur in `entries`, in the order of `path`
RECURSIVE OccursInOrder(_, _)
OccursInOrder(path, entries) ==
    IF path = << >> THEN TRUE
    ELSE IF entries = << >> THEN FALSE
    ELSE IF Head(entries) = Head(path)
    THEN OccursInOrder(Tail(path), Tail(entries))
    ELSE OccursInOrder(path, Tail(entries))

\* C23: under the baseline table and sequential requests, the history of every
\* case whose status is EN_TRAITEMENT holds entries into PRESCRIPTION_VALIDEE,
\* CONTOURS_VALIDES, PLAN_EN_REVUE, PLAN_VALIDE and PRET_POUR_TRAITEMENT, in that
\* order, before the entry into EN_TRAITEMENT that is its last record.
C23_GatesBeforeTreatment ==
    \A d \in DOMAIN dossiers :
        dossiers[d].statut = EN_TRAITEMENT =>
            /\ OccursInOrder(Gates, Entries(dossiers[d].historique))
            /\ dossiers[d].historique[Len(dossiers[d].historique)].nouveau_statut
                   = EN_TRAITEMENT

\* a case in treatment that went back to PLAN_EN_REVUE on its way
C23_Witness ==
    \E d \in DOMAIN dossiers :
        /\ dossiers[d].statut = EN_TRAITEMENT
        /\ \E i \in DOMAIN dossiers[d].historique :
               /\ dossiers[d].historique[i].ancien_statut = PLAN_VALIDE
               /\ dossiers[d].historique[i].nouveau_statut = PLAN_EN_REVUE

-----------------------------------------------------------------------------
(* The shape of the baseline table *)

\* the linear progression of a case
Progression ==
    <<A_PREPARER, PRESCRIPTION_VALIDEE, CONTOURS_VALIDES, PLAN_EN_REVUE, PLAN_VALIDE,
      PRET_POUR_TRAITEMENT, EN_TRAITEMENT, CLOTURE>>

\* the forward steps of the progression, numbered by their source
ForwardSteps == 1..(Len(Progression) - 1)

\* the validation was run against the baseline table
ValidatedOnBaseline == Validated /\ Table = HardcodedBaseline

\* in the baseline, each step k -> k+1 of `steps` is listed and is paired with the
\* listed step k+1 -> k, and A_REPRENDRE_CONTOURAGE lists CONTOURS_VALIDES alone;
\* so under the baseline table no validation along a step of `steps`, forward or
\* backward, is refused as 'non autorisee', and a validation from
\* A_REPRENDRE_CONTOURAGE is refused so exactly when its target is not
\* CONTOURS_VALIDES
BaselineShape(steps) ==
    /\ \A k \in steps :
           /\ In(Progression[k + 1], baseline.forward_rules[Progression[k]])
           /\ In(Progression[k], baseline.forward_rules[Progression[k + 1]])
    /\ baseline.forward_rules[A_REPRENDRE_CONTOURAGE] = <<CONTOURS_VALIDES>>
    /\ ValidatedOnBaseline =>
           /\ \A k \in steps :
                  {response.current, response.target}
                      = {Progression[k], Progression[k + 1]} =>
                      response.result.msg # "non autorisee"
           /\ response.current = A_REPRENDRE_CONTOURAGE =>
                  (response.result.msg = "non autorisee"
                       <=> response.target # CONTOURS_VALIDES)

\* C24, as the claim states it: every forward step of the progression, the last
\* one EN_TRAITEMENT -> CLOTURE included, is paired with a legal backward step to
\* its source, and A_REPRENDRE_CONTOURAGE leads to CONTOURS_VALIDES only.
C24_AsStated == BaselineShape(ForwardSteps)

\* C24, amended: every forward step of the progression but the last one is paired
\* with a legal backward step to its source; the last step EN_TRAITEMENT -> CLOTURE
\* is listed but CLOTURE lists no target, so it has no backward step; and
\* A_REPRENDRE_CONTOURAGE leads to CONTOURS_VALIDES only.
C24_BaselineShape ==
    /\ BaselineShape(ForwardSteps \ {Len(Progression) - 1})
    /\ In(CLOTURE, baseline.forward_rules[EN_TRAITEMENT])
    /\ baseline.forward_rules[CLOTURE] = << >>
    /\ ValidatedOnBaseline /\ response.current = CLOTURE =>
           response.result.msg = "non autorisee"

\* under the baseline table, the backward step PLAN_VALIDE -> PLAN_EN_REVUE is
\* accepted with a comment
C24_Witness ==
    /\ ValidatedOnBaseline
    /\ response.current = PLAN_VALIDE /\ response.target = PLAN_EN_REVUE
    /\ response.commentaire = "motif"
    /\ response.result = NoError

-----------------------------------------------------------------------------
(* Self-loops *)

\* the status lists itself among its targets in `rules`
SelfListed(rules, status) == In(status, DictGet(rules, status, << >>))

\* C25: a validation whose target is the current status fails with the 'non
\* autorisee' error unless the table lists the status among its own targets; the
\* baseline lists no status among its own targets, so under the baseline table
\* every accepted transition leads to a status other than the current one.
C25_NoImplicitSelfLoop ==
    /\ \A s \in DossierStatus : ~SelfListed(baseline.forward_rules, s)
    /\ Validated /\ response.target = response.current
           /\ ~SelfListed(forward_rules, response.current) =>
           response.result = IllegalTransition(response.current, response.target)
    /\ ValidatedOnBaseline /\ response.result = NoError =>
           response.target # response.current

\* a request to stay in A_REPRENDRE_CONTOURAGE is refused to a caller whose role,
\* checklist and comment are in order, while the administrator has listed
\* A_PREPARER among its own targets
C25_Witness ==
    /\ Validated
    /\ response.current = A_REPRENDRE_CONTOURAGE
    /\ response.target = A_REPRENDRE_CONTOURAGE
    /\ SelfListed(forward_rules, A_PREPARER)
    /\ response.role = PHYSICIEN /\ response.commentaire = "motif"
    /\ \A f \in ChecklistFields : response.checklist[f]
    /\ response.result.msg = "non autorisee"

-----------------------------------------------------------------------------
(* The API boundary: POST /dossiers/{dossier_id}/transition                *)
(* (oncoflow/app.py, lines 47-59 and 163-194)                              *)

\* str(exc): the message of a TransitionError (a ValueError) with the values
\* formatted into it; the repr of the message, in quotes, for a KeyError
Str(error) ==
    IF error.exc = "KeyError"
    THEN <<"'", error.msg, "'">>
    ELSE <<error.msg, error.a, error.b>>

\* HTTPException(status_code=..., detail=...)
HTTPException(status_code, detail) == [status_code |-> status_code, detail |-> detail]

\* no exception raised
NoException == [status_code |-> 0, detail |-> << >>]

\* no identity resolved
NoIdentity == [utilisateur |-> None, role |-> None]

\* require_identity: the identity of the headers, or the exception it raises
RequireIdentity(x_user, x_role) ==
    IF ~Truthy(x_user) \/ ~Truthy(x_role)
    THEN [raised |-> HTTPException(401, <<"Entetes X-User et X-Role requis">>),
          identity |-> NoIdentity]
    ELSE IF x_role \notin Role
    THEN [raised |-> HTTPException(400, <<"Role inconnu">>), identity |-> NoIdentity]
    ELSE [raised |-> NoException,
          identity |-> [utilisateur |-> x_user, role |-> x_role]]

\* `a or b`
Or(a, b) == IF Truthy(a) THEN a ELSE b

\* a handler that does not compare the body with the headers
IdentityMismatch_Unchecked(request, identity) == NoException

\* the exception the handler raises before it calls the repository, NoException
\* when it goes on to the call
IdentityMismatch(request, identity) ==
    IF Truthy(request.acteur) /\ request.acteur # identity.utilisateur
    THEN HTTPException(403, <<"L'acteur doit correspondre a l'entete X-User">>)
    ELSE IF Truthy(request.role) /\ request.role # identity.role
    THEN HTTPException(403, <<"Le role doit correspondre a l'entete X-Role">>)
    ELSE NoException

\* request.model_copy(update={"acteur": acteur, "role": role})
FilledRequest(request, identity) ==
    [request EXCEPT !.acteur = Or(request.acteur, identity.utilisateur),
                    !.role = Or(request.role, identity.role)]

\* except clauses that answer every error of the repository as not found
Answer_AlwaysNotFound(error) == HTTPException(404, Str(error))

\* the except clauses of the handler: KeyError -> 404, TransitionError -> 400;
\* any other exception leaves the handler and is answered 500
Answer(error) ==
    IF error.exc = "KeyError" THEN HTTPException(404, Str(error))
    ELSE IF error.exc = "TransitionError" THEN HTTPException(400, Str(error))
    ELSE HTTPException(500, <<"Internal Server Error">>)

\* transition_dossier(dossier_id, request, storage, identity), with the dependency
\* require_identity resolved first
TransitionDossier(dossier_id, request, x_user, x_role) ==
    LET auth == RequireIdentity(x_user, x_role)
        refused == IF auth.raised # NoException THEN auth.raised
                   ELSE IdentityMismatch(request, auth.identity)
        filled == FilledRequest(request, auth.identity)
        outcome == IF refused # NoException THEN Rejected(NoError)
                   ELSE ApplyTransitionOutcome(dossier_id, filled)
        exception == IF refused # NoException THEN refused
                     ELSE IF outcome.result # NoError THEN Answer(outcome.result)
                     ELSE NoException
    IN  /\ response = NoResponse
        /\ \A t \in Threads : pc[t] = "idle"
        /\ outcome.transition # NoTransition =>
               Len(dossiers[dossier_id].historique) < MaxHistory
        /\ dossiers' = outcome.dossiers
        /\ notifications' = outcome.notifications
        /\ nextId' = outcome.nextId
        /\ response' =
               [op |-> "transition_dossier", dossier_id |-> dossier_id,
                request |-> request, x_user |-> x_user, x_role |-> x_role,
                \* what the repository raised, NoError when it was not called
                \* or returned
                called |-> refused = NoException,
                raised |-> outcome.result,
                \* the exception that leaves the handler
                exception |-> exception,
                \* 200 and storage.get_dossier(dossier_id) when nothing was raised
                status_code |-> IF exception = NoException THEN 200
                                ELSE exception.status_code,
                transition |-> outcome.transition,
                before |-> [dossiers |-> dossiers, notifications |-> notifications]]
        /\ IF outcome.transition # NoTransition
           THEN /\ statutWrites' = [statutWrites EXCEPT ![dossier_id] = @ + 1]
                /\ readOf' = [readOf EXCEPT ![dossier_id] =
                                 Append(@, statutWrites[dossier_id])]
           ELSE UNCHANGED <<statutWrites, readOf>>
        /\ UNCHANGED <<tableVars, envVars, messages, patients, pc, local>>
        /\ Save(outcome.transition # NoTransition)

\* the headers of a request: absent or a user name; absent, a role, or a role
\* name that is no Role
XUsers == {None, "bot", "eve"}
XRoles == {None, PHYSICIEN, ONCOLOGUE, "stagiaire"}

\* acteur and role of the body: absent, or those of the physicist "bot"
BodyIdentites ==
    {[acteur |-> None, role |-> None], [acteur |-> "bot", role |-> PHYSICIEN]}

\* contexte of the body: no flag, or the flag of the first gate
ApiContextes == {<< >>, [f \in {"identity_validated"} |-> TRUE]}

\* a client posts some transition request with some headers
Post ==
    /\ response = NoResponse
    /\ \E dossier_id \in DossierIds, cible \in Cibles, contexte \in ApiContextes,
          commentaire \in GateCommentaires, identite \in BodyIdentites,
          x_user \in XUsers, x_role \in XRoles :
           TransitionDossier(dossier_id,
               TransitionRequest(cible, contexte, commentaire, identite),
               x_user, x_role)

NextApi ==
    \/ CreatePatient
    \/ \E patient_id \in PatientIds : CreateDossier(patient_id)
    \/ Post
    \/ Reconfigure
    \/ Return

SpecApi == Init /\ [][NextApi]_vars

Posted == response.op = "transition_dossier"

\* the error the engine's validation gives for the posted request on the case as
\* the request found it, NoError when it accepts the transition
EngineVerdict ==
    ValidateTransition(CaseBefore.statut, response.request.cible,
                       MergeChecklist(CaseBefore.checklists, response.request.contexte),
                       response.request.commentaire,
                       Or(response.request.role, response.x_role))

\* C26: every validation failure the engine raises during a repository
\* transition leaves the handler as a 400 whose detail is the engine's message,
\* the repository having raised that very error; a request for an unknown case
\* is answered 404; and no request is answered as a server fault.
C26_ErrorPropagation ==
    Posted =>
        /\ response.status_code # 500
        /\ response.called =>
            IF response.dossier_id \notin DOMAIN response.before.dossiers
            THEN response.status_code = 404
            ELSE EngineVerdict # NoError =>
                     /\ response.raised = EngineVerdict
                     /\ response.exception = HTTPException(400, Str(EngineVerdict))

\* the engine's refusal of a missing checklist flag, answered 400 with its message
C26_Witness ==
    /\ Posted
    /\ response.called
    /\ response.dossier_id \in DOMAIN response.before.dossiers
    /\ response.raised =
           PreconditionNotMet("identity_validated", PRESCRIPTION_VALIDEE)
    /\ response.status_code = 400
    /\ response.exception.detail =
           <<"condition doit etre validee", "identity_validated", PRESCRIPTION_VALIDEE>>

\* the headers of the posted request name a user and a role
HeadersComplete == Truthy(response.x_user) /\ Truthy(response.x_role)

\* the body of the posted request names an actor or a role other than the headers'
BodyDiffers ==
    \/ Truthy(response.request.acteur) /\ response.request.acteur # response.x_user
    \/ Truthy(response.request.role) /\ response.request.role # response.x_role

\* the posted request wrote nothing
CaseUntouched ==
    /\ dossiers = response.before.dossiers
    /\ notifications = response.before.notifications

-----------------------------------------------------------------------------
(* Reading the history back.  The in-memory repositories keep the records  *)
(* of a case in a list; the SQLite repository keeps one row per record and *)
(* reads the rows back in the order of their timestamp text.               *)

\* the readings of the wall clock: datetime.utcnow() is not monotonic, the clock
\* of the host can be set back, and two readings can be equal
Instants == {<<1, 0>>, <<1, 5>>, <<2, 0>>}

\* time passes, or the clock of the host is adjusted
ClockStep ==
    /\ response = NoResponse
    /\ \E instant \in Instants \ {now} : now' = instant
    /\ UNCHANGED <<tableVars, backend, patients, dossiers, messages, notifications,
                   nextId, file, response, threadVars>>

\* SQLite's datetime(text): the timestamp cut down to whole seconds
SqlDatetime(text) == <<text[1]>>

\* the order of two timestamps as datetime objects
Earlier(a, b) == a[1] < b[1] \/ (a[1] = b[1] /\ a[2] < b[2])

\* the order of two TEXT values: field by field, a prefix before its extensions
RECURSIVE TextLess(_, _)
TextLess(a, b) ==
    IF a = << >> THEN b # << >>
    ELSE IF b = << >> THEN FALSE
    ELSE IF Head(a) # Head(b) THEN Head(a) < Head(b)
    ELSE TextLess(Tail(a), Tail(b))

\* the row INSERTed for a record (lines 738-753): the statuses and the role by
\* their .value, the timestamp by its isoformat(), an absent comment as NULL
TransitionRow(transition) ==
    [id |-> transition.id, dossier_id |-> transition.dossier_id,
     ancien_statut |-> transition.ancien_statut,
     nouveau_statut |-> transition.nouveau_statut,
     horodatage |-> IsoFormat(transition.horodatage),
     auteur |-> transition.auteur, role |-> transition.role,
     commentaire |-> IF transition.commentaire = None THEN NULL
                     ELSE transition.commentaire]

\* a conversion that reads the timestamp back in whole seconds
RowToTransition_Seconds(row) ==
    [id |-> row.id, dossier_id |-> row.dossier_id,
     ancien_statut |-> EnumOf(DossierStatus, row.ancien_statut),
     nouveau_statut |-> EnumOf(DossierStatus, row.nouveau_statut),
     horodatage |-> <<row.horodatage[1], 0>>,
     auteur |-> row.auteur, role |-> EnumOf(Role, row.role),
     commentaire |-> IF row.commentaire = NULL THEN None ELSE row.commentaire]

\* _row_to_transition (lines 616-626)
RowToTransition(row) ==
    [id |-> row.id, dossier_id |-> row.dossier_id,
     ancien_statut |-> EnumOf(DossierStatus, row.ancien_statut),
     nouveau_statut |-> EnumOf(DossierStatus, row.nouveau_statut),
     horodatage |-> FromIsoFormat(row.horodatage),
     auteur |-> row.auteur, role |-> EnumOf(Role, row.role),
     commentaire |-> IF row.commentaire = NULL THEN None ELSE row.commentaire]

\* the rows of the table transitions, in the order of their insertion; with
\* DossierIds a single case, these are the rows of that case
TransitionRows(dossier_id) ==
    IF dossier_id \in DOMAIN dossiers
    THEN [i \in DOMAIN dossiers[dossier_id].historique |->
             TransitionRow(dossiers[dossier_id].historique[i])]
    ELSE << >>

\* the ways of arranging n rows
Arrangements(n) ==
    {p \in [1..n -> 1..n] : \A i, j \in 1..n : i # j => p[i] # p[j]}

\* SELECT ... ORDER BY horodatage: the rows in ascending order of the timestamp
\* text; the order of rows with equal timestamps is not specified
OrderByHorodatage(rows) ==
    {[i \in DOMAIN rows |-> rows[p[i]]] : p \in
        {q \in Arrangements(Len(rows)) :
            \A i, j \in DOMAIN rows :
                i < j => ~TextLess(rows[q[j]].horodatage, rows[q[i]].horodatage)}}

\* SELECT ... ORDER BY datetime(horodatage) DESC
OrderByDatetimeDesc(rows) ==
    {[i \in DOMAIN rows |-> rows[p[i]]] : p \in
        {q \in Arrangements(Len(rows)) :
            \A i, j \in DOMAIN rows :
                i < j => ~TextLess(SqlDatetime(rows[q[i]].horodatage),
                                   SqlDatetime(rows[q[j]].horodatage))}}

\* sorted(events, key=lambda t: t.horodatage, reverse=True): a stable sort, the
\* records with equal timestamps keep their order
SortedByHorodatageDesc(events) ==
    {[i \in DOMAIN events |-> events[p[i]]] : p \in
        {q \in Arrangements(Len(events)) :
            \A i, j \in DOMAIN events :
                i < j => \/ Earlier(events[q[j]].horodatage, events[q[i]].horodatage)
                         \/ /\ events[q[j]].horodatage = events[q[i]].horodatage
                            /\ q[i] < q[j]}}

\* the lists get_history(dossier_id) can return, and the error it raises:
\* InMemoryRepository (lines 98-100) returns the list of the case and raises
\* KeyError for an unknown case; SQLiteRepository (lines 610-614) converts the
\* rows it selects and returns no row for an unknown case
GetHistoryResults(dossier_id) ==
    IF backend # "sqlite"
    THEN IF dossier_id \in DOMAIN dossiers
         THEN {[result |-> NoError, historique |-> dossiers[dossier_id].historique]}
         ELSE {[result |-> DossierIntrouvable, historique |-> << >>]}
    ELSE {[result |-> NoError,
           historique |-> [i \in DOMAIN rows |-> RowToTransition(rows[i])]] :
              rows \in OrderByHorodatage(TransitionRows(dossier_id))}

\* repo.get_history(dossier_id)
GetHistory(dossier_id) ==
    /\ response = NoResponse
    /\ \E returned \in GetHistoryResults(dossier_id) :
           response' = [op |-> "get_history", dossier_id |-> dossier_id,
                        result |-> returned.result,
                        historique |-> returned.historique]
    /\ UNCHANGED <<tableVars, repoVars, threadVars>>

\* the lists list_audit_log() can return (lines 203-207 and 807-811)
AuditLogResults ==
    LET events(d) == IF d \in DOMAIN dossiers THEN dossiers[d].historique ELSE << >>
    IN  UNION {IF backend # "sqlite"
               THEN SortedByHorodatageDesc(events(d))
               ELSE {[i \in DOMAIN rows |-> RowToTransition(rows[i])] :
                        rows \in OrderByDatetimeDesc(TransitionRows(d))} :
               d \in DossierIds}

\* repo.list_audit_log()
ListAuditLog ==
    /\ response = NoResponse
    /\ \E returned \in AuditLogResults :
           response' = [op |-> "list_audit_log", dossier_id |-> None,
                        result |-> NoError, historique |-> returned]
    /\ UNCHANGED <<tableVars, repoVars, threadVars>>

\* a repository reset that leaves the rule table as it is
ResetTable_Kept ==
    [forward_rules |-> forward_rules, allowed_roles |-> allowed_roles,
     checklist_requirements |-> checklist_requirements]

\* the table engine.reset() builds (workflow.py lines 79-86), the last statement
\* of repo.reset(): a copy of the class attributes
ResetTable ==
    [forward_rules |-> baseline.forward_rules, allowed_roles |-> baseline.allowed_roles,
     checklist_requirements |-> baseline.checklist_requirements]

\* repo.reset() (lines 32-37, 281-283 and 465-469): every collection is emptied and the
\* engine is reset
RepoReset ==
    /\ response = NoResponse
    /\ \A t \in Threads : pc[t] = "idle"
    /\ patients' = {}
    /\ dossiers' = << >>
    /\ messages' = << >>
    /\ notifications' = << >>
    /\ statutWrites' = << >>
    /\ readOf' = << >>
    /\ forward_rules' = ResetTable.forward_rules
    /\ allowed_roles' = ResetTable.allowed_roles
    /\ checklist_requirements' = ResetTable.checklist_requirements
    /\ shared' = {}
    /\ response' = [op |-> "repo.reset", result |-> NoError]
    /\ UNCHANGED <<baseline, envVars, nextId, pc, local>>
    /\ Save(TRUE)

\* the requests of a user who walks a case forward and back, with a reason
HistoryCibles == {A_PREPARER, PRESCRIPTION_VALIDEE, CONTOURS_VALIDES}

SubmitStep ==
    /\ response = NoResponse
    /\ nextId <= MaxBuilt
    /\ \E dossier_id \in DossierIds, cible \in HistoryCibles,
          commentaire \in GateCommentaires :
           ApplyTransition(dossier_id,
               TransitionRequest(cible, RequiredFlagOnly(cible), commentaire,
                                 [acteur |-> "bot", role |-> PHYSICIEN]))

\* a caller reads the history of a case, or the audit log
Read ==
    \/ \E dossier_id \in DossierIds : GetHistory(dossier_id)
    \/ ListAuditLog

NextHistory ==
    \/ CreatePatient
    \/ \E patient_id \in PatientIds : CreateDossier(patient_id)
    \/ SubmitStep
    \/ ClockStep
    \/ Read
    \/ RepoReset
    \/ Return

SpecHistory == Init /\ [][NextHistory]_vars

\* the ids of all the records of all the histories are pairwise distinct
DistinctIds ==
    \A d, e \in DOMAIN dossiers :
        \A i \in DOMAIN dossiers[d].historique, j \in DOMAIN dossiers[e].historique :
            dossiers[d].historique[i].id = dossiers[e].historique[j].id =>
                d = e /\ i = j

\* the step is a successful transition of the case d
Applies(d) ==
    /\ response'.op = "apply_transition"
    /\ response'.dossier_id = d
    /\ response'.result = NoError

\* C27: a successful transition adds exactly its record at the end of the history
\* of its case; every other operation but a repository reset leaves every
\* history as it is; the ids of the records are pairwise distinct; and
\* get_history returns the records of a case in the order in which the
\* transitions were applied, whichever the backend.
C27_HistoryAppendOnly ==
    [][/\ \A d \in DOMAIN dossiers \cap DOMAIN dossiers' :
              dossiers'[d].historique =
                  IF Applies(d)
                  THEN Append(dossiers[d].historique, response'.transition)
                  ELSE dossiers[d].historique
       /\ DistinctIds'
       /\ response'.op = "get_history" /\ response'.dossier_id \in DOMAIN dossiers' =>
              response'.historique = dossiers'[response'.dossier_id].historique]_vars

\* the records the engine returned for the case d and the repository stored
Recorded(d) ==
    IF d \in DOMAIN dossiers
    THEN {dossiers[d].historique[i] : i \in DOMAIN dossiers[d].historique}
    ELSE {}

\* the records of the list a read returned
Returned == {response.historique[i] : i \in DOMAIN response.historique}

\* C28: the records SQLiteRepository.get_history and list_audit_log read back are
\* the records the engine returned to apply_transition, each once and each with
\* the same id, case id, previous status, new status, timestamp, actor name,
\* actor role and comment, an absent comment included.
C28_TransitionRoundTrip ==
    backend = "sqlite" =>
        /\ response.op = "get_history" =>
               /\ Returned = Recorded(response.dossier_id)
               /\ Len(response.historique) = Cardinality(Returned)
        /\ response.op = "list_audit_log" =>
               /\ Returned \in {Recorded(d) : d \in DossierIds}
               /\ Len(response.historique) = Cardinality(Returned)

\* the SQLite history read back holds a record without comment, stamped on a whole
\* second, and a commented record stamped with microseconds
C28_Witness ==
    /\ backend = "sqlite"
    /\ response.op = "get_history"
    /\ \E i, j \in DOMAIN response.historique :
           /\ response.historique[i].commentaire = None
           /\ response.historique[i].horodatage = <<2, 0>>
           /\ response.historique[j].commentaire = "motif"
           /\ response.historique[j].horodatage = <<1, 5>>
           /\ response.historique[j].nouveau_statut = A_PREPARER

-----------------------------------------------------------------------------
(* The file-backed repository (lines 273-336): every mutating call writes  *)
(* the whole state to a JSON document, and the constructor reads it back.  *)

\* Message(dossier_id=..., auteur=..., role=..., texte=...); the default of id is a
\* fresh id, of horodatage datetime.utcnow(), of visibilite "equipe"
Message(id, dossier_id, auteur, role, texte) ==
    [id |-> id, dossier_id |-> dossier_id, auteur |-> auteur, role |-> role,
     texte |-> texte, mentions |-> << >>, pieces_jointes |-> << >>,
     visibilite |-> "equipe", horodatage |-> now]

\* Notification(type="message",
\*              message=f"Nouveau message sur le dossier {dossier_id} par {auteur}", ...)
MessageNotification(dossier_id, auteur) ==
    [type |-> "message", sur |-> dossier_id, par |-> auteur, severity |-> "info",
     dossier_id |-> dossier_id, created_at |-> now]

\* a thread that keeps the latest message only
SetDefaultAppend_Replace(ms, key, message) == (key :> <<message>>) @@ ms

\* self.messages.setdefault(dossier_id, []).append(message)
SetDefaultAppend(ms, key, message) ==
    IF key \in DOMAIN ms
    THEN [ms EXCEPT ![key] = Append(@, message)]
    ELSE (key :> <<message>>) @@ ms

\* repo.add_message(dossier_id, auteur, role, texte): lines 102-132 and 295-298
AddMessage(dossier_id, auteur, role, texte) ==
    /\ response = NoResponse
    /\ \A t \in Threads : pc[t] = "idle"
    /\ IF dossier_id \notin DOMAIN dossiers
       THEN /\ response' = [op |-> "add_message", dossier_id |-> dossier_id,
                            result |-> DossierIntrouvable]
            /\ UNCHANGED <<messages, notifications, nextId>>
       ELSE /\ nextId <= MaxBuilt
            /\ messages' = SetDefaultAppend(messages, dossier_id,
                               Message(nextId, dossier_id, auteur, role, texte))
            /\ notifications' = Append(notifications,
                                       MessageNotification(dossier_id, auteur))
            /\ nextId' = nextId + 1
            /\ response' = [op |-> "add_message", dossier_id |-> dossier_id,
                            result |-> NoError]
    /\ UNCHANGED <<tableVars, envVars, patients, dossiers, threadVars>>
    /\ Save(dossier_id \in DOMAIN dossiers)

\* InMemoryRepository.__init__ (lines 26-30): four empty collections
EmptyRepository ==
    [patients |-> {}, dossiers |-> << >>, messages |-> << >>, notifications |-> << >>]

\* what the repository holds
Held ==
    [patients |-> patients, dossiers |-> dossiers, messages |-> messages,
     notifications |-> notifications]

\* FileBackedRepository(path) (lines 274-279) on the path of the running
\* repository: the new object starts empty and loads the document when the file
\* exists; from here on the process works on the new object
Reopen ==
    /\ response = NoResponse
    /\ \A t \in Threads : pc[t] = "idle"
    /\ backend = "file"
    /\ LET restored == IF file.exists THEN Load(file) ELSE EmptyRepository
       IN  /\ patients' = restored.patients
           /\ dossiers' = restored.dossiers
           /\ messages' = restored.messages
           /\ notifications' = restored.notifications
    /\ response' = [op |-> "reopen", result |-> NoError, before |-> Held]
    /\ UNCHANGED <<tableVars, envVars, nextId, file, threadVars>>

\* the machines a case is created on
Machines == {None, "Linac"}

\* the process runs the file-backed repository, on a path where no file exists yet
InitFile == InitOn({"file"})

NextFile ==
    \/ CreatePatient
    \/ \E patient_id \in PatientIds, machine \in Machines :
           CreateDossierOn(patient_id, machine)
    \/ \E dossier_id \in DossierIds : AddMessage(dossier_id, "bot", COORDINATION, "note")
    \/ SubmitStep
    \/ ClockStep
    \/ Reopen
    \/ Return

SpecFile == InitFile /\ [][NextFile]_vars

\* C30: after any sequence of create_patient, create_dossier, add_message and
\* apply_transition calls on a FileBackedRepository, the snapshot file reads back
\* as what the repository holds, so that a new FileBackedRepository opened on the
\* same file holds the same patients, the same cases (status, checklist, history,
\* machine), the same messages and the same notifications
C30_FilePersistence ==
    /\ file.exists => Load(file) = Held
    /\ ~file.exists => Held = EmptyRepository
    /\ response.op = "reopen" => Held = response.before

\* a repository is reopened on a file that holds a case created on a machine, with
\* a transition without a comment, stamped on a whole second, and a message stamped
\* with microseconds
C30_Witness ==
    /\ response.op = "reopen"
    /\ \E d \in DOMAIN dossiers :
        /\ dossiers[d].machine = "Linac"
        /\ dossiers[d].statut = PRESCRIPTION_VALIDEE
        /\ dossiers[d].checklists.identity_validated
        /\ \E i \in DOMAIN dossiers[d].historique :
            /\ dossiers[d].historique[i].commentaire = None
            /\ dossiers[d].historique[i].horodatage[2] = 0
        /\ d \in DOMAIN messages
        /\ \E i \in DOMAIN messages[d] : messages[d][i].horodatage[2] # 0
    /\ Len(notifications) = 2

-----------------------------------------------------------------------------
(* Messages: add_message and list_messages of the in-memory repository     *)
(* (lines 102-137) and of the SQLite repository (lines 628-713), which     *)
(* keeps the messages as rows and lists them by descending timestamp text. *)

\* _json_dump_list(payload): the JSON text of the list
JsonDumpList(payload) == [json |-> payload]

\* _json_load_list(raw)
JsonLoadList(raw) == raw.json

\* the row INSERTed for a message (lines 650-666)
MessageRow(message) ==
    [id |-> message.id, dossier_id |-> message.dossier_id, auteur |-> message.auteur,
     role |-> message.role, texte |-> message.texte,
     mentions |-> JsonDumpList(message.mentions),
     pieces_jointes |-> JsonDumpList(message.pieces_jointes),
     visibilite |-> message.visibilite,
     horodatage |-> IsoFormat(message.horodatage)]

\* _row_to_message (lines 702-713)
RowToMessage(row) ==
    [id |-> row.id, dossier_id |-> row.dossier_id, auteur |-> row.auteur,
     role |-> EnumOf(Role, row.role), texte |-> row.texte,
     mentions |-> JsonLoadList(row.mentions),
     pieces_jointes |-> JsonLoadList(row.pieces_jointes),
     visibilite |-> row.visibilite,
     horodatage |-> FromIsoFormat(row.horodatage)]

\* SELECT ... ORDER BY horodatage DESC: the rows in descending order of the
\* timestamp text; the order of rows with equal timestamps is not specified
OrderByHorodatageDesc(rows) ==
    {[i \in DOMAIN rows |-> rows[p[i]]] : p \in
        {q \in Arrangements(Len(rows)) :
            \A i, j \in DOMAIN rows :
                i < j => ~TextLess(rows[q[i]].horodatage, rows[q[j]].horodatage)}}

\* what list_messages(dossier_id) can return: KeyError for an unknown case, else
\* the list of the case (lines 134-137), or the rows of the case converted
\* (lines 693-700)
ListMessagesResults(dossier_id) ==
    LET thread == DictGet(messages, dossier_id, << >>)
    IN  IF dossier_id \notin DOMAIN dossiers
        THEN {[result |-> DossierIntrouvable, listed |-> << >>]}
        ELSE IF backend # "sqlite"
        THEN {[result |-> NoError, listed |-> thread]}
        ELSE {[result |-> NoError,
               listed |-> [i \in DOMAIN rows |-> RowToMessage(rows[i])]] :
                  rows \in OrderByHorodatageDesc(
                              [i \in DOMAIN thread |-> MessageRow(thread[i])])}

\* repo.list_messages(dossier_id)
ListMessages(dossier_id) ==
    /\ response = NoResponse
    /\ \E returned \in ListMessagesResults(dossier_id) :
           response' = [op |-> "list_messages", dossier_id |-> dossier_id,
                        result |-> returned.result, listed |-> returned.listed]
    /\ UNCHANGED <<tableVars, repoVars, threadVars>>

\* the authors of the messages
Auteurs == {"bot", "eve"}

\* a user posts a message on a case
PostMessage ==
    /\ response = NoResponse
    /\ \E dossier_id \in DossierIds, auteur \in Auteurs :
           AddMessage(dossier_id, auteur, COORDINATION, "note")

NextMessages ==
    \/ CreatePatient
    \/ \E patient_id \in PatientIds : CreateDossier(patient_id)
    \/ PostMessage
    \/ \E dossier_id \in DossierIds : ListMessages(dossier_id)
    \/ ClockStep
    \/ RepoReset
    \/ Return

SpecMessages == Init /\ [][NextMessages]_vars

\* the messages list_messages(d) would return now, as a set, whatever their order
Thread(d) ==
    UNION {{returned.listed[i] : i \in DOMAIN returned.listed} :
              returned \in ListMessagesResults(d)}

\* the call that has just returned is `op`
Returns(op) == response = NoResponse /\ response'.op = op

\* the notifications of type 'message', in the order they were appended
MessageNotifications ==
    SelectSeq(notifications, LAMBDA n : n.type = "message")

\* C31: add_message on an existing case adds exactly one message to the thread of
\* that case and appends exactly one notification of type 'message' for that case;
\* add_message and list_messages on an unknown case fail with not-found and change
\* nothing; list_messages on a known case changes nothing and lists as many
\* messages as the thread holds, and the thread holds nothing when the case is
\* created or the repository is reset, one more after each successful add_message
\* and the same after every other call
C31_Messages ==
    [][\A d \in DossierIds :
        /\ Returns("add_message") /\ response'.dossier_id = d =>
             IF d \in DOMAIN dossiers
             THEN /\ response'.result = NoError
                  /\ \E message \in Thread(d)' \ Thread(d) :
                        /\ Thread(d)' = Thread(d) \cup {message}
                        /\ message.dossier_id = d
                  /\ Cardinality(Thread(d)') = Cardinality(Thread(d)) + 1
                  /\ Len(notifications') = Len(notifications) + 1
                  /\ SubSeq(notifications', 1, Len(notifications)) = notifications
                  /\ notifications'[Len(notifications')].type = "message"
                  /\ notifications'[Len(notifications')].dossier_id = d
                  /\ dossiers' = dossiers /\ patients' = patients
             ELSE /\ response'.result = DossierIntrouvable
                  /\ UNCHANGED <<patients, dossiers, messages, notifications>>
        /\ Returns("list_messages") /\ response'.dossier_id = d =>
             /\ UNCHANGED <<patients, dossiers, messages, notifications>>
             /\ IF d \in DOMAIN dossiers
                THEN /\ response'.result = NoError
                     /\ Len(response'.listed) = Cardinality(Thread(d))
                     /\ {response'.listed[i] : i \in DOMAIN response'.listed} = Thread(d)
                ELSE response'.result = DossierIntrouvable
        /\ Returns("repo.reset") => Thread(d)' = {} /\ notifications' = << >>
        /\ Returns("create_dossier") /\ response'.id = d => Thread(d)' = {}
        /\ ~Returns("add_message") /\ ~Returns("repo.reset") =>
             Thread(d)' = Thread(d)
      ]_vars

\* two messages were posted on a case, by two authors in the same instant, and
\* list_messages returns both
C31_Witness ==
    /\ response.op = "list_messages"
    /\ response.result = NoError
    /\ Len(response.listed) = 2
    /\ response.listed[1].auteur # response.listed[2].auteur
    /\ response.listed[1].horodatage = response.listed[2].horodatage
    /\ Len(MessageNotifications) = 2

-----------------------------------------------------------------------------
(* The audit log: list_audit_log of the in-memory repository (lines        *)
(* 203-207) and of the SQLite repository (lines 807-811).                  *)

\* the records of all the histories
AllRecorded == UNION {Recorded(d) : d \in DOMAIN dossiers}

\* the list runs from the newest timestamp to the oldest
NewestFirst(events) ==
    \A i, j \in DOMAIN events :
        i < j => ~Earlier(events[i].horodatage, events[j].horodatage)

\* the audit log holds the records of the histories, each once
AuditComplete ==
    response.op = "list_audit_log" =>
        /\ Returned = AllRecorded
        /\ Len(response.historique) = Cardinality(Returned)

\* C32: the audit log list_audit_log returns holds exactly the transitions of all
\* the case histories, each successful transition once and no refused request,
\* ordered by timestamp from the newest to the oldest
C32_AuditCompleteness ==
    /\ AuditComplete
    /\ response.op = "list_audit_log" => NewestFirst(response.historique)

-----------------------------------------------------------------------------
(* The chain of a history: sequential requests against rule tables that an *)
(* administrator rewires, with self-loops and skips among the targets.     *)

\* the administrator lets A_PREPARER lead to itself and straight to
\* CONTOURS_VALIDES, lets CONTOURS_VALIDES lead back to A_PREPARER only, drops
\* the requirement of CONTOURS_VALIDES, or resets the table
ReconfigureChain ==
    \/ Reset
    \/ UpdateTransitions(A_PREPARER, <<A_PREPARER, CONTOURS_VALIDES>>)
    \/ UpdateTransitions(CONTOURS_VALIDES, <<A_PREPARER>>)
    \/ UpdateChecklistRequirement(CONTOURS_VALIDES, None)

NextChain ==
    \/ CreatePatient
    \/ \E patient_id \in PatientIds : CreateDossier(patient_id)
    \/ SubmitStep
    \/ ReconfigureChain
    \/ Return

SpecChain == Init /\ [][NextChain]_vars

\* C33: for every case, the previous status of the first history record is
\* A_PREPARER, the previous status of each later record is the new status of the
\* record before it, and the new status of the last record is the current status
\* of the case; a case with an empty history is in A_PREPARER
C33_HistoryChain ==
    \A d \in DOMAIN dossiers :
        LET historique == dossiers[d].historique
        IN  /\ historique = << >> => dossiers[d].statut = A_PREPARER
            /\ historique # << >> =>
                   /\ historique[1].ancien_statut = A_PREPARER
                   /\ historique[Len(historique)].nouveau_statut = dossiers[d].statut
            /\ \A i \in 2..Len(historique) :
                   historique[i].ancien_statut = historique[i - 1].nouveau_statut

\* under a rewired table a case stayed in A_PREPARER by a self-loop and then went
\* straight to CONTOURS_VALIDES
C33_Witness ==
    \E d \in DOMAIN dossiers :
        /\ Len(dossiers[d].historique) = 2
        /\ dossiers[d].historique[1].nouveau_statut = A_PREPARER
        /\ dossiers[d].historique[2].nouveau_statut = CONTOURS_VALIDES
        /\ dossiers[d].statut = CONTOURS_VALIDES

-----------------------------------------------------------------------------
(* The entry gates under the baseline table: sequential requests that go   *)
(* forward and back, with overrides that set and clear checklist flags.    *)

\* the longest history of a case that goes forward and back between the gates
MaxEntries == 4

\* the overrides of a request for `cible`: none, the required flag alone, every
\* flag cleared but the required one, every flag set but the required one
EntryContextes(cible) ==
    LET required == RequiredFlagOnly(cible)
    IN  {<< >>, required,
         [f \in ChecklistFields |-> f \in DOMAIN required],
         [f \in ChecklistFields |-> f \notin DOMAIN required]}

\* a caller submits a request with one of these overrides, with or without a
\* comment
SubmitEntry ==
    /\ response = NoResponse
    /\ \E dossier_id \in DossierIds, cible \in HistoryCibles,
          commentaire \in GateCommentaires :
        \E contexte \in EntryContextes(cible) :
           ApplyTransitionWithin(MaxEntries, dossier_id,
               TransitionRequest(cible, contexte, commentaire,
                                 [acteur |-> "bot", role |-> PHYSICIEN]))

NextEntry ==
    \/ CreatePatient
    \/ \E patient_id \in PatientIds : CreateDossier(patient_id)
    \/ SubmitEntry
    \/ Return

SpecEntry == Init /\ [][NextEntry]_vars

\* C34: while the rule table is the baseline and requests are sequential, every
\* case whose current status has a checklist requirement has the required flag
\* true in its stored checklist
C34_EntryGateHolds ==
    Table = HardcodedBaseline =>
        \A d \in DOMAIN dossiers :
            dossiers[d].statut \in DOMAIN checklist_requirements =>
                dossiers[d].checklists[checklist_requirements[dossiers[d].statut]]

\* a case came back from CONTOURS_VALIDES to PRESCRIPTION_VALIDEE with overrides
\* that cleared every flag but identity_validated
C34_Witness ==
    /\ Table = HardcodedBaseline
    /\ Submitted
    /\ response.result = NoError
    /\ CaseBefore.statut = CONTOURS_VALIDES
    /\ CaseBefore.checklists["prescription_signed"]
    /\ CaseNow.statut = PRESCRIPTION_VALIDEE
    /\ CaseNow.checklists["identity_validated"]
    /\ ~CaseNow.checklists["prescription_signed"]

-----------------------------------------------------------------------------
(* The status order: the class attribute WorkflowEngine.order (lines       *)
(* 13-23), read by _is_backward and by snapshot and assigned by no method. *)

\* order.index raised ValueError for one of the two statuses, and _is_backward
\* returned False from its except clause
FallbackTaken(current, target) ==
    IndexOf(current) > Len(order) \/ IndexOf(target) > Len(order)

\* C35: every status appears exactly once in the status order, so for the two
\* statuses of any validated request, when they are distinct, exactly one
\* direction is backward, and the fallback for a status absent from the order is
\* not taken; the order a snapshot reports is the same nine statuses after every
\* operation
C35_StatusOrder ==
    /\ \A status \in DossierStatus :
           Cardinality({i \in DOMAIN order : order[i] = status}) = 1
    /\ Len(order) = Cardinality(DossierStatus)
    /\ Validated =>
           LET a == response.current
               b == response.target
           IN  /\ a # b => IsBackward(a, b) # IsBackward(b, a)
               /\ a = b => ~IsBackward(a, b)
               /\ ~FallbackTaken(a, b)
    /\ response.op = "snapshot" /\ response.result = NoError =>
           response.snapshot.status_order =
               <<A_PREPARER, PRESCRIPTION_VALIDEE, CONTOURS_VALIDES, PLAN_EN_REVUE,
                 A_REPRENDRE_CONTOURAGE, PLAN_VALIDE, PRET_POUR_TRAITEMENT,
                 EN_TRAITEMENT, CLOTURE>>

\* after the administrator made CLOTURE lead somewhere, a request that leaves
\* CLOTURE without a comment is classified as backward by position
C35_Witness ==
    /\ Validated
    /\ Table # HardcodedBaseline
    /\ response.current = CLOTURE
    /\ response.target = A_PREPARER
    /\ response.result = CommentRequired

-----------------------------------------------------------------------------
(* The contouring rework loop of the baseline table:                       *)
(* PLAN_EN_REVUE -> A_REPRENDRE_CONTOURAGE -> CONTOURS_VALIDES.            *)

\* the validation under the baseline table was asked for current -> target
BaselineMove(current, target) ==
    ValidatedOnBaseline /\ response.current = current /\ response.target = target

\* C36: under the baseline, PLAN_EN_REVUE -> A_REPRENDRE_CONTOURAGE is forward
\* and succeeds without a comment and whatever the checklist;
\* A_REPRENDRE_CONTOURAGE -> CONTOURS_VALIDES is backward and succeeds exactly
\* when prescription_signed is true and the comment is not empty, the missing
\* flag being reported before the missing comment; PLAN_VALIDE -> PLAN_EN_REVUE
\* is backward and PLAN_EN_REVUE -> PLAN_VALIDE is forward
C36_ReworkLoop ==
    /\ ~IsBackward(PLAN_EN_REVUE, A_REPRENDRE_CONTOURAGE)
    /\ IsBackward(A_REPRENDRE_CONTOURAGE, CONTOURS_VALIDES)
    /\ IsBackward(PLAN_VALIDE, PLAN_EN_REVUE)
    /\ ~IsBackward(PLAN_EN_REVUE, PLAN_VALIDE)
    /\ BaselineMove(PLAN_EN_REVUE, A_REPRENDRE_CONTOURAGE) => response.result = NoError
    /\ BaselineMove(A_REPRENDRE_CONTOURAGE, CONTOURS_VALIDES) =>
           response.result =
               IF ~response.checklist["prescription_signed"]
               THEN PreconditionNotMet("prescription_signed", CONTOURS_VALIDES)
               ELSE IF response.commentaire \in {None, ""}
               THEN CommentRequired
               ELSE NoError
    /\ BaselineMove(PLAN_VALIDE, PLAN_EN_REVUE) =>
           response.result =
               IF ~response.checklist["contours_locked"]
               THEN PreconditionNotMet("contours_locked", PLAN_EN_REVUE)
               ELSE IF response.commentaire \in {None, ""}
               THEN CommentRequired
               ELSE NoError
    /\ BaselineMove(PLAN_EN_REVUE, PLAN_VALIDE) =>
           response.result =
               IF ~response.checklist["qa_dosimetrie"]
               THEN PreconditionNotMet("qa_dosimetrie", PLAN_VALIDE)
               ELSE NoError

\* a case sent to rework without a comment and with no flag set is accepted
C36_Witness ==
    /\ BaselineMove(PLAN_EN_REVUE, A_REPRENDRE_CONTOURAGE)
    /\ response.commentaire = None
    /\ response.checklist = ChecklistState
    /\ response.result = NoError

-----------------------------------------------------------------------------
(* Walks through the baseline table: a user keeps asking for one of the    *)
(* targets the table lists for the current status of the case, with every  *)
(* checklist flag set and a comment, so that no request is refused.        *)

\* the longest history of a walk: the progression with one round of rework
MaxWalk == 10

\* the user asks for a target the table lists for the current status
SubmitWalk ==
    /\ response = NoResponse
    /\ \E dossier_id \in DOMAIN dossiers :
        \E cible \in {t \in DossierStatus : In(t, DictGet(forward_rules,
                                               dossiers[dossier_id].statut, << >>))},
           contexte \in GateContextes :
           ApplyTransitionWithin(MaxWalk, dossier_id,
               TransitionRequest(cible, contexte, "motif",
                                 [acteur |-> "bot", role |-> PHYSICIEN]))

NextWalk ==
    \/ CreatePatient
    \/ \E patient_id \in PatientIds : CreateDossier(patient_id)
    \/ SubmitWalk
    \/ Return

\* the user goes on: every call returns, and a call the user can make again and
\* again (creating the patient, creating the case, asking for a listed target) is
\* made at some point
SpecWalk ==
    /\ Init
    /\ [][NextWalk]_vars
    /\ SF_vars(CreatePatient)
    /\ SF_vars(\E patient_id \in PatientIds : CreateDossier(patient_id))
    /\ SF_vars(SubmitWalk)
    /\ WF_vars(Return)

\* the statuses from which a case can be brought into `closing` in at most n
\* accepted requests
RECURSIVE ReachableFrom(_, _)
ReachableFrom(closing, n) ==
    IF n = 0 THEN closing
    ELSE ReachableFrom(
             closing \cup {s \in DossierStatus :
                             \E t \in closing :
                                 ValidateTransition(s, t, [f \in ChecklistFields |-> TRUE],
                                                    "motif", PHYSICIEN) = NoError},
             n - 1)

\* CLOTURE alone lists no target, and from every status some sequence of requests
\* with suitable overrides and comments is accepted and ends in CLOTURE
NoDeadEnd ==
    /\ \A s \in DossierStatus :
           DictGet(forward_rules, s, << >>) = << >> <=> s = CLOTURE
    /\ ReachableFrom({CLOTURE}, Len(order)) = DossierStatus

\* the latest accepted request did not go backward
ChoseForward ==
    Submitted /\ response.result = NoError =>
        ~IsBackward(CaseBefore.statut, response.request.cible)

\* some case is closed
Closed == \E d \in DOMAIN dossiers : dossiers[d].statut = CLOTURE

-----------------------------------------------------------------------------
(* The two backends side by side.  The in-memory repository keeps the      *)
(* Dossier objects; the SQLite repository keeps one row per case and one   *)
(* row per record, and builds the Dossier again on every read.  `dossiers` *)
(* is what the calls made so far have stored, in the order they stored it. *)

\* _json_dump(checklists.model_dump()) (lines 471-472, 575): the JSON object, one
\* member per field
JsonDump(checklists) == {<<f, checklists[f]>> : f \in DOMAIN checklists}

\* ChecklistState.model_validate(_json_load(text)) (lines 477-478, 597): a field
\* the object does not hold takes its default
JsonLoad(object) ==
    [f \in ChecklistFields |->
        IF \E member \in object : member[1] = f
        THEN (CHOOSE member \in object : member[1] = f)[2]
        ELSE FALSE]

\* the row of the table dossiers: the INSERT of create_dossier (lines 562-577) and
\* the UPDATE of apply_transition (lines 730-737)
DossierRow(id, dossier) ==
    [id |-> id, patient_id |-> dossier.patient_id,
     machine |-> IF dossier.machine = None THEN NULL ELSE dossier.machine,
     statut |-> dossier.statut, checklists |-> JsonDump(dossier.checklists)]

\* _row_to_dossier (lines 588-600): the history is filled by get_history
RowToDossier(row, historique) ==
    [patient_id |-> row.patient_id,
     machine |-> IF row.machine = NULL THEN None ELSE row.machine,
     statut |-> EnumOf(DossierStatus, row.statut),
     checklists |-> JsonLoad(row.checklists),
     historique |-> historique]

\* the objects SQLiteRepository.get_dossier (lines 602-608) can return; none when
\* the SELECT finds no row, and the call raises KeyError
SQLiteGetDossier(dossier_id) ==
    IF dossier_id \notin DOMAIN dossiers THEN {}
    ELSE {RowToDossier(DossierRow(dossier_id, dossiers[dossier_id]),
                       [i \in DOMAIN rows |-> RowToTransition(rows[i])]) :
             rows \in OrderByHorodatage(TransitionRows(dossier_id))}

\* the objects InMemoryRepository.get_dossier (lines 92-96) can return
MemoryGetDossier(dossier_id) ==
    IF dossier_id \notin DOMAIN dossiers THEN {} ELSE {dossiers[dossier_id]}

\* what the comparison keeps of a record: its timestamp and its id are left out
Seen(transition) ==
    <<transition.ancien_statut, transition.nouveau_statut, transition.auteur,
      transition.role, transition.commentaire>>

\* what the comparison keeps of a case
View(dossier) ==
    [statut |-> dossier.statut, checklists |-> dossier.checklists,
     historique |-> [i \in DOMAIN dossier.historique |-> Seen(dossier.historique[i])]]

\* a call that raised: its error kind, and nothing stored
Raised(error) == [result |-> error, stored |-> << >>, inserted |-> << >>]

\* SQLiteRepository.apply_transition (lines 715-762): the result, the case as the
\* UPDATE leaves it and the record the INSERT adds, both read back
SQLiteApplyTransition(dossier_id, request) ==
    IF SQLiteGetDossier(dossier_id) = {} THEN {Raised(DossierIntrouvable)}
    ELSE {LET merged_checklist == MergeChecklist(dossier.checklists, request.contexte)
          IN  IF ~Truthy(request.acteur) \/ ~Truthy(request.role)
              THEN Raised(IdentityMissing)
              ELSE LET built == EngineApplyTransition(dossier_id, dossier.statut,
                                    request.cible, merged_checklist, request.acteur,
                                    request.role, request.commentaire)
                       updated == [DossierRow(dossier_id, dossier) EXCEPT
                                       !.statut = request.cible,
                                       !.checklists = JsonDump(merged_checklist)]
                   IN  IF built.error # NoError
                       THEN Raised(built.error)
                       ELSE [result |-> NoError,
                             stored |-> <<[statut |-> EnumOf(DossierStatus, updated.statut),
                                           checklists |-> JsonLoad(updated.checklists)]>>,
                             inserted |-> <<Seen(RowToTransition(
                                               TransitionRow(built.transition)))>>] :
             dossier \in SQLiteGetDossier(dossier_id)}

\* InMemoryRepository.apply_transition (lines 139-168), in the same terms
MemoryApplyTransition(dossier_id, request) ==
    LET outcome == ApplyTransitionOutcome(dossier_id, request)
    IN  {IF outcome.result # NoError THEN Raised(outcome.result)
         ELSE [result |-> NoError,
               stored |-> <<[statut |-> outcome.dossiers[dossier_id].statut,
                             checklists |-> outcome.dossiers[dossier_id].checklists]>>,
               inserted |-> <<Seen(outcome.transition)>>]}

\* create_dossier on the two backends: `patient_id not in self.patients` (line 77)
\* and the SELECT of the patient row (lines 549-553)
MemoryCreateDossier(patient_id) ==
    IF patient_id \notin patients THEN PatientIntrouvable ELSE NoError

SQLiteCreateDossier(patient_id) ==
    IF {row \in {[id |-> id] : id \in patients} : row.id = patient_id} = {}
    THEN PatientIntrouvable ELSE NoError

\* the requests of the comparison: known and refused targets, with and without
\* override, comment and identity
BackendRequests ==
    {TransitionRequest(cible, contexte, commentaire, identite) :
        cible \in HistoryCibles, contexte \in {<< >>} \cup {RequiredFlagOnly(c) : c \in HistoryCibles},
        commentaire \in GateCommentaires,
        identite \in {[acteur |-> "bot", role |-> PHYSICIEN],
                      [acteur |-> None, role |-> PHYSICIEN]}}

\* a caller submits one of these requests
SubmitBackends ==
    /\ response = NoResponse
    /\ nextId <= MaxBuilt
    /\ \E dossier_id \in DossierIds, request \in BackendRequests :
           ApplyTransition(dossier_id, request)

NextBackends ==
    \/ CreatePatient
    \/ \E patient_id \in PatientIds : CreateDossier(patient_id)
    \/ SubmitBackends
    \/ ClockStep
    \/ Return

SpecBackends == Init /\ [][NextBackends]_vars

\* the next call succeeds on both backends or fails on both with the same error
\* kind, and stores the same status, checklist and record
CallsAgree ==
    /\ \A patient_id \in PatientIds :
           SQLiteCreateDossier(patient_id) = MemoryCreateDossier(patient_id)
    /\ \A dossier_id \in DossierIds, request \in BackendRequests :
           SQLiteApplyTransition(dossier_id, request) =
               MemoryApplyTransition(dossier_id, request)

\* both backends hold the same cases, with the same status and checklist and the
\* same records, whatever their order
SameRecords ==
    \A dossier_id \in DossierIds :
        \A memory \in MemoryGetDossier(dossier_id), sqlite \in SQLiteGetDossier(dossier_id) :
            /\ View(sqlite).statut = View(memory).statut
            /\ View(sqlite).checklists = View(memory).checklists
            /\ Len(sqlite.historique) = Len(memory.historique)
            /\ {sqlite.historique[i] : i \in DOMAIN sqlite.historique} =
                   {memory.historique[i] : i \in DOMAIN memory.historique}

\* the parts of the equivalence that do not depend on the order in which the
\* history is read back
AgreeUpToOrder ==
    /\ CallsAgree
    /\ SameRecords
    /\ \A dossier_id \in DossierIds :
           SQLiteGetDossier(dossier_id) = {} <=> MemoryGetDossier(dossier_id) = {}

\* C38: for the same sequential series of create_patient, create_dossier and
\* apply_transition calls the in-memory and the SQLite repository agree on which
\* calls succeed and on the error kind of those that fail, and after every call
\* on the status, the checklist and the history (previous status, new status,
\* actor, role, comment, in sequence) of each case.
C38_BackendEquivalence ==
    /\ CallsAgree
    /\ \A dossier_id \in DossierIds :
           {View(dossier) : dossier \in SQLiteGetDossier(dossier_id)} =
               {View(dossier) : dossier \in MemoryGetDossier(dossier_id)}

\* the step is an accepted transition and leaves exactly one more notification, the
\* last one, of type 'transition', for the case, that names the actor, the status
\* the case had before the call and the target
NotifiesTransition ==
    Returns("apply_transition") /\ response'.result = NoError =>
        /\ Len(notifications') = Len(notifications) + 1
        /\ SubSeq(notifications', 1, Len(notifications)) = notifications
        /\ LET notification == notifications'[Len(notifications')]
               request == response'.request
           IN  /\ notification.type = "transition"
               /\ notification.dossier_id = response'.dossier_id
               /\ notification.acteur = request.acteur
               /\ notification.de = dossiers[response'.dossier_id].statut
               /\ notification.vers = request.cible

\* C39: every successful transition appends exactly one notification of type
\* 'transition' for that case whose text names the actor, the status the case had
\* before the transition and then the target status, for the in-memory and for the
\* SQLite repository alike.
C39_TransitionNotification == [][NotifiesTransition]_vars

-----------------------------------------------------------------------------
(* Demo seeding (lines 209-270 and 813-874): seed_demo resets the          *)
(* repository, creates three patients and one case for each, and walks the *)
(* second case one step and the third case three steps forward.            *)

\* alice, bob and clara, and the cases created for them; the ids are fresh
SeedPatients == <<"alice", "bob", "clara">>
SeedDossiers == <<"dA", "dB", "dC">>
SeedMachines == <<"Linac A", "CyberKnife", "Linac B">>

\* the list `transitions`, as far as seed_demo uses it (transitions[:3])
SeedTransitions ==
    <<TransitionRequest(PRESCRIPTION_VALIDEE, [f \in {"identity_validated"} |-> TRUE],
                        None, [acteur |-> "dr onco", role |-> ONCOLOGUE]),
      TransitionRequest(CONTOURS_VALIDES, [f \in {"prescription_signed"} |-> TRUE],
                        None, [acteur |-> "dr onco", role |-> ONCOLOGUE]),
      TransitionRequest(PLAN_EN_REVUE, [f \in {"contours_locked"} |-> TRUE],
                        None, [acteur |-> "dosimetrist", role |-> DOSIMETRISTE])>>

\* zip(dossiers, targets), flattened: the calls of the double loop, in order
SeedCalls ==
    <<[dossier_id |-> SeedDossiers[2], request |-> SeedTransitions[1]],
      [dossier_id |-> SeedDossiers[3], request |-> SeedTransitions[1]],
      [dossier_id |-> SeedDossiers[3], request |-> SeedTransitions[2]],
      [dossier_id |-> SeedDossiers[3], request |-> SeedTransitions[3]]>>

\* the repository after reset() and the three create_patient and create_dossier
\* calls
Seeded ==
    [result |-> NoError,
     dossiers |-> [id \in {SeedDossiers[i] : i \in DOMAIN SeedDossiers} |->
                      LET i == CHOOSE i \in DOMAIN SeedDossiers : SeedDossiers[i] = id
                      IN  Dossier(SeedPatients[i], SeedMachines[i])],
     notifications |-> << >>,
     nextId |-> nextId]

\* self.apply_transition(dossier.id, transition) inside seed_demo, against the
\* rule table `table` the reset has left; an exception ends seed_demo
SeedApply(table, seeded, call) ==
    IF seeded.result # NoError THEN seeded
    ELSE LET dossier == seeded.dossiers[call.dossier_id]
             request == call.request
             merged_checklist == MergeChecklist(dossier.checklists, request.contexte)
             error == IF ~Truthy(request.acteur) \/ ~Truthy(request.role)
                      THEN IdentityMissing
                      ELSE FirstError(
                               <<ReachabilityCheck(table.forward_rules, dossier.statut,
                                                   request.cible),
                                 RoleCheck(table.allowed_roles, request.role, request.cible),
                                 ChecklistCheck(table.checklist_requirements,
                                                merged_checklist, request.cible),
                                 DirectionCheck(dossier.statut, request.cible,
                                                request.commentaire)>>)
         IN  IF error # NoError THEN [seeded EXCEPT !.result = error]
             ELSE [result |-> NoError,
                   dossiers |-> [seeded.dossiers EXCEPT ![call.dossier_id] =
                       AppliedDossier(dossier, request.cible, merged_checklist,
                           Transition(seeded.nextId, call.dossier_id, dossier.statut,
                                      request.cible, request.acteur, request.role,
                                      request.commentaire))],
                   notifications |-> Append(seeded.notifications,
                       TransitionNotification(call.dossier_id, request.acteur,
                           request.role, NotifiedStatut(dossier, request.cible),
                           request.cible)),
                   nextId |-> seeded.nextId + 1]

\* the repository after the first n calls of the double loop
RECURSIVE SeedLoop(_, _)
SeedLoop(table, n) ==
    IF n = 0 THEN Seeded ELSE SeedApply(table, SeedLoop(table, n - 1), SeedCalls[n])

\* repo.seed_demo()
SeedDemo ==
    LET seeded == SeedLoop(ResetTable, Len(SeedCalls))
    IN  /\ response = NoResponse
        /\ \A t \in Threads : pc[t] = "idle"
        /\ nextId <= MaxBuilt
        /\ patients' = {SeedPatients[i] : i \in DOMAIN SeedPatients}
        /\ dossiers' = seeded.dossiers
        /\ messages' = << >>
        /\ notifications' = seeded.notifications
        /\ nextId' = seeded.nextId
        /\ statutWrites' = [id \in DOMAIN seeded.dossiers |->
                               Len(seeded.dossiers[id].historique)]
        /\ readOf' = [id \in DOMAIN seeded.dossiers |->
                         [i \in DOMAIN seeded.dossiers[id].historique |-> i - 1]]
        /\ forward_rules' = ResetTable.forward_rules
        /\ allowed_roles' = ResetTable.allowed_roles
        /\ checklist_requirements' = ResetTable.checklist_requirements
        /\ shared' = {}
        /\ response' = [op |-> "seed_demo", result |-> seeded.result,
                        before |-> Table]
        /\ UNCHANGED <<baseline, envVars, pc, local>>
        /\ Save(TRUE)

\* the administrator closes the first step of the demo, keeps the oncologist out
\* of PRESCRIPTION_VALIDEE, asks CONTOURS_VALIDES for a flag the demo does not
\* set, or resets the table
ReconfigureSeed ==
    \/ Reset
    \/ UpdateTransitions(A_PREPARER, << >>)
    \/ UpdateAllowedRoles(PRESCRIPTION_VALIDEE, <<PHYSICIEN>>)
    \/ UpdateChecklistRequirement(CONTOURS_VALIDES, "qa_machine_jour")

NextSeed ==
    \/ CreatePatient
    \/ \E patient_id \in PatientIds : CreateDossier(patient_id)
    \/ PostMessage
    \/ ReconfigureSeed
    \/ SeedDemo
    \/ RepoReset
    \/ Return

SpecSeed == Init /\ [][NextSeed]_vars

\* C40: after repo.reset() no patient, case, message or notification remains and
\* the rule table equals the baseline; seed_demo succeeds after any prior
\* configuration of the rule table and leaves exactly three cases, with statuses
\* A_PREPARER, PRESCRIPTION_VALIDEE and PLAN_EN_REVUE and histories of length 0, 1
\* and 3.
C40_ResetAndSeed ==
    /\ response.op = "repo.reset" =>
           /\ patients = {} /\ dossiers = << >>
           /\ messages = << >> /\ notifications = << >>
           /\ Table = HardcodedBaseline
    /\ response.op = "seed_demo" =>
           /\ response.result = NoError
           /\ Table = HardcodedBaseline
           /\ DOMAIN dossiers = {SeedDossiers[i] : i \in DOMAIN SeedDossiers}
           /\ Cardinality(DOMAIN dossiers) = 3
           /\ [i \in DOMAIN SeedDossiers |-> dossiers[SeedDossiers[i]].statut] =
                  <<A_PREPARER, PRESCRIPTION_VALIDEE, PLAN_EN_REVUE>>
           /\ [i \in DOMAIN SeedDossiers |-> Len(dossiers[SeedDossiers[i]].historique)] =
                  <<0, 1, 3>>

\* the demo was seeded over a table in which A_PREPARER led nowhere and the
\* oncologist could not enter PRESCRIPTION_VALIDEE
C40_Witness ==
    /\ response.op = "seed_demo"
    /\ response.before.forward_rules[A_PREPARER] = << >>
    /\ response.before.allowed_roles[PRESCRIPTION_VALIDEE] = <<PHYSICIEN>>
    /\ response.result = NoError
    /\ dossiers[SeedDossiers[3]].statut = PLAN_EN_REVUE

====
